---- MODULE Spec2Model ----
(***************************************************************************)
(* Model of the data import pipeline of datadock                           *)
(* (backend/data_import/services.py, tasks.py, serializers.py).            *)
(*                                                                         *)
(* The specifications share the pure operators of the pipeline:            *)
(*   SpecInsert  repeated insert_data_orm calls on one process             *)
(*   SpecFetch   fetch_data_from_endpoint / process_file_data applied to   *)
(*               a source drawn by Init                                    *)
(*   SpecSync    synchronous imports, one import_data call at a time       *)
(*   Spec        the database with synchronous imports, asynchronous jobs  *)
(*               and appends interleaving                                  *)
(*   SpecJobs    asynchronous jobs one after the other, with retries and   *)
(*               injected failures (FairJobs: with fair workers)           *)
(*   SpecNames   sanitize_column_name on one field name                    *)
(*   SpecDetect  detect_column_type on the values of one column            *)
(*                                                                         *)
(* Field names are sequences of one-character strings.  The limits         *)
(* MAX_ROWS, MAX_COLUMNS and BATCH_SIZE are scaled down (100000, 100 and   *)
(* 1000 in the source); the comparisons made with them are the source's.   *)
(***************************************************************************)
EXTENDS Integers, Sequences, FiniteSets, TLC

\* ------------------------------------------------------------------ bounds
\* longest row list given to insert_data_orm in SpecInsert
MaxLen == 3

\* ------------------------------------------------------- program constants
\* services.py:213/385 (100000 in the source, scaled)
MAX_ROWS == 3
\* services.py:214/386 (100 in the source, scaled)
MAX_COLUMNS == 2
\* services.py:577 (1000 in the source, scaled)
BATCH_SIZE == 2
\* services.py:60  sample = non_none_values[:100]
SAMPLE_SIZE == 100
\* services.py:77  sample[:20]
DATE_SAMPLE == 20
\* services.py:330
max_retries == 3
\* services.py:349  time.sleep(2)
RETRY_PAUSE == 2

\* ------------------------------------------------------------------ values
\* A cell value: its Python type name, a payload, and how dateutil parses it
\* when it is a string ("no", "date" or "datetime"); for a native datetime
\* dt says whether it has a time-of-day component.
None == [ty |-> "NoneType", v |-> 0, dt |-> "no"]
IntV(n) == [ty |-> "int", v |-> n, dt |-> "no"]
StrV(n, d) == [ty |-> "str", v |-> n, dt |-> d]

TYPE_MAPPING(t) ==
    CASE t = "str" -> "TEXT"
      [] t = "int" -> "INTEGER"
      [] t = "float" -> "REAL"
      [] t = "bool" -> "BOOLEAN"
      [] t = "NoneType" -> "TEXT"
      [] OTHER -> "TEXT"

TypeTags == {"TEXT", "INTEGER", "REAL", "BOOLEAN", "date", "datetime"}

\* ------------------------------------------------------------- field names
UpperChars == {"A", "B"}
LowerChars == {"a", "b", "c", "o", "l", "s", "n", "i", "t", "z", "e", "d", "u", "m"}
DigitChars == {"0", "1"}
SpaceChars == {" "}

Lower(c) == CASE c = "A" -> "a" [] c = "B" -> "b" [] OTHER -> c

\* \w of the regular expressions
IsWordChar(c) == c \in UpperChars \cup LowerChars \cup DigitChars \cup {"_"}

COL_LITERAL == <<"c", "o", "l", "_", "{", "s", "a", "n", "i", "t", "i", "z", "e", "d", "}">>
UNNAMED_COLUMN == <<"u", "n", "n", "a", "m", "e", "d", "_", "c", "o", "l", "u", "m", "n">>

RECURSIVE CollapseSpaces(_)
\* re.sub(r"\s+", "_", s)
CollapseSpaces(s) ==
    IF s = <<>> THEN <<>>
    ELSE IF Head(s) \in SpaceChars
         THEN IF Len(s) > 1 /\ s[2] \in SpaceChars
              THEN CollapseSpaces(Tail(s))
              ELSE <<"_">> \o CollapseSpaces(Tail(s))
         ELSE <<Head(s)>> \o CollapseSpaces(Tail(s))

\* services.py:38-40: the characters that are neither \w nor \s are
\* dropped, each run of \s becomes one underscore, the rest is lowercased.
Cleaned(column_name) ==
    LET kept == SelectSeq(column_name, LAMBDA c : IsWordChar(c) \/ c \in SpaceChars)
        joined == CollapseSpaces(kept)
    IN [i \in 1..Len(joined) |-> Lower(joined[i])]

\* services.py:42-45: a name that starts with a digit becomes the string
\* "col_{sanitized}" (written without the f prefix, so not interpolated),
\* an empty one "unnamed_column".
Marked(sanitized) ==
    IF sanitized # <<>> /\ sanitized[1] \in DigitChars THEN COL_LITERAL
    ELSE IF sanitized = <<>> THEN UNNAMED_COLUMN
    ELSE sanitized

sanitize_column_name(column_name) == Marked(Cleaned(column_name))

\* ------------------------------------------------------------------- rows
\* A row of a source: a dict (a function from field names to values) or
\* something that is not a dict.
EmptyDict == [k \in {} |-> None]
DictRow(f) == [isdict |-> TRUE, f |-> f]
NotADict == [isdict |-> FALSE, f |-> EmptyDict]

Keys(row) == DOMAIN row.f

\* item.get(key)
Get(row, key) == IF key \in Keys(row) THEN row.f[key] ELSE None

Range(s) == {s[i] : i \in DOMAIN s}

\* --------------------------------------------------------- type inference
\* The number of TRUE entries of a sequence of booleans.
CountTrue(flags) == Cardinality({i \in DOMAIN flags : flags[i]})

\* detect_column_type: the set of tags the call can return.  The fallback
\* max(set(types), key=types.count) returns the first maximal element in
\* the iteration order of a set of strings, which Python randomises per
\* process: with a tie every maximal type is a possible result.
detect_column_type(values) ==
    LET non_none_values == SelectSeq(values, LAMBDA v : v.ty # "NoneType")
        sample == SubSeq(non_none_values, 1,
                         IF Len(non_none_values) < SAMPLE_SIZE
                         THEN Len(non_none_values) ELSE SAMPLE_SIZE)
        head20 == SubSeq(sample, 1,
                         IF Len(sample) < DATE_SAMPLE THEN Len(sample) ELSE DATE_SAMPLE)
        datetime_count == CountTrue([i \in DOMAIN head20 |-> head20[i].dt = "datetime"])
        date_count == CountTrue([i \in DOMAIN head20 |-> head20[i].dt = "date"])
        total_parsed == date_count + datetime_count
        types == [i \in DOMAIN sample |-> sample[i].ty]
        TypeCount(t) == CountTrue([i \in DOMAIN types |-> types[i] = t])
        most_common == {t \in Range(types) :
                          \A u \in Range(types) : TypeCount(u) <= TypeCount(t)}
    IN IF non_none_values = <<>> THEN {"TEXT"}
       ELSE IF \E i \in DOMAIN sample : sample[i].ty = "datetime"
       THEN IF \E i \in DOMAIN sample :
                  sample[i].ty = "datetime" /\ sample[i].dt = "datetime"
            THEN {"datetime"} ELSE {"date"}
       ELSE IF (\A i \in DOMAIN sample : sample[i].ty = "str")
               /\ total_parsed * 10 > Len(head20) * 8
       THEN IF datetime_count > date_count THEN {"datetime"} ELSE {"date"}
       ELSE {TYPE_MAPPING(t) : t \in most_common}

\* all_keys of analyze_column_structure
AllKeys(data) == UNION {Keys(data[i]) : i \in {j \in DOMAIN data : data[j].isdict}}

\* values = [item.get(key) for item in data if isinstance(item, dict)]
ColumnValues(data, key) ==
    LET dicts == SelectSeq(data, LAMBDA r : r.isdict)
    IN [i \in DOMAIN dicts |-> Get(dicts[i], key)]

\* analyze_column_structure: the set of structures the call can return.
\* The keys are visited in the iteration order of a set; when two original
\* names sanitize to the same safe name the one visited last stays, so
\* either can.
analyze_column_structure(data) ==
    IF data = <<>> THEN {EmptyDict}
    ELSE LET all_keys == AllKeys(data)
             safe == {sanitize_column_name(k) : k \in all_keys}
         IN {cs \in [safe -> [original_name : all_keys, type : TypeTags]] :
               \A s \in safe :
                  /\ sanitize_column_name(cs[s].original_name) = s
                  /\ cs[s].type \in detect_column_type(
                                      ColumnValues(data, cs[s].original_name))}

\* ---------------------------------------------------------------- storage
\* An ImportedDataRecord: [process, row_hash, data].  The table is a sequence
\* in insertion order.

\* ImportedDataRecord.generate_row_hash: a deterministic digest of the
\* contents of the normalized record, whatever the order of its fields; a
\* value that cannot be serialized makes it raise.
generate_row_hash(normalized_data) ==
    IF \E k \in DOMAIN normalized_data : normalized_data[k].ty = "object"
    THEN [ok |-> FALSE, digest |-> {}]
    ELSE [ok |-> TRUE,
          digest |-> {<<k, normalized_data[k].ty, normalized_data[k].v>> :
                        k \in DOMAIN normalized_data}]

\* The row_hash values stored for a process.
HashesOf(table, process) ==
    {table[i].row_hash : i \in {j \in DOMAIN table : table[j].process = process}}

RECURSIVE bulk_create(_, _, _)
\* ImportedDataRecord.objects.bulk_create(batch, ignore_conflicts=True): with
\* the unique constraint on (process, row_hash) a conflicting row is dropped
\* silently; without it every row of the batch is written.
bulk_create(table, batch, unique) ==
    IF batch = <<>> THEN table
    ELSE LET r == Head(batch)
             conflict == unique /\ r.row_hash \in HashesOf(table, r.process)
         IN bulk_create(IF conflict THEN table ELSE Append(table, r),
                        Tail(batch), unique)

\* A plausible slip: the stored hashes are not preloaded.
NoExistingHashes(table, process) == {}

\* existing_hashes = set(...filter(process=process).values_list("row_hash"))
existing_hashes(table, process) == HashesOf(table, process)

\* name_mapping = {info["original_name"]: col_name for col_name, info in cs.items()}
NameMapped(column_structure) ==
    {column_structure[s].original_name : s \in DOMAIN column_structure}

\* A plausible slip: the fields without a mapping are kept under their own
\* names.
NormalizeKeepsUnmapped(item, column_structure) ==
    LET safe == {s \in DOMAIN column_structure :
                   column_structure[s].original_name \in Keys(item)}
        rest == Keys(item) \ NameMapped(column_structure)
    IN [s \in safe \cup rest |->
          IF s \in safe THEN item.f[column_structure[s].original_name]
          ELSE item.f[s]]

\* The normalized_data of one dict row: its mapped fields under their safe
\* names.
Normalize(item, column_structure) ==
    LET safe == {s \in DOMAIN column_structure :
                   column_structure[s].original_name \in Keys(item)}
    IN [s \in safe |-> item.f[column_structure[s].original_name]]

\* A plausible slip: the hash of a staged row is not added to existing_hashes.
StageRowNoAdd(acc, item, process, column_structure) ==
    IF ~item.isdict THEN [acc EXCEPT !.errors = @ + 1]
    ELSE LET normalized_data == Normalize(item, column_structure)
             h == generate_row_hash(normalized_data)
         IN IF DOMAIN normalized_data = {} THEN [acc EXCEPT !.errors = @ + 1]
            ELSE IF ~h.ok THEN [acc EXCEPT !.errors = @ + 1]
            ELSE IF h.digest \in acc.existing_hashes
            THEN [acc EXCEPT !.duplicates_skipped = @ + 1]
            ELSE [acc EXCEPT !.records_to_create =
                                Append(@, [process |-> process,
                                           row_hash |-> h.digest,
                                           data |-> normalized_data])]

\* One iteration of the loop over the rows (services.py:519-566).
StageRow(acc, item, process, column_structure) ==
    IF ~item.isdict THEN [acc EXCEPT !.errors = @ + 1]
    ELSE LET normalized_data == Normalize(item, column_structure)
             h == generate_row_hash(normalized_data)
         IN IF DOMAIN normalized_data = {} THEN [acc EXCEPT !.errors = @ + 1]
            ELSE IF ~h.ok THEN [acc EXCEPT !.errors = @ + 1]
            ELSE IF h.digest \in acc.existing_hashes
            THEN [acc EXCEPT !.duplicates_skipped = @ + 1]
            ELSE [acc EXCEPT !.records_to_create =
                                Append(@, [process |-> process,
                                           row_hash |-> h.digest,
                                           data |-> normalized_data]),
                             !.existing_hashes = @ \cup {h.digest}]

\* The one element of a set of one element.
Only(S) == CHOOSE x \in S : TRUE

RECURSIVE StageAll(_, _, _, _)
\* The loop over the rows: the rows are staged one after the other.
StageAll(acc, data, process, column_structure) ==
    IF data = <<>> THEN acc
    ELSE Only({StageAll(next, Tail(data), process, column_structure) :
                 next \in {StageRow(acc, Head(data), process, column_structure)}})

\* A plausible slip: a failed bulk insert adds only the failing batch to errors.
BulkFailedBatchOnly(st, staged, batch) ==
    [st EXCEPT !.errors = @ + Len(batch), !.failed = TRUE]

\* The except branch of the bulk insert (services.py:588-594).
BulkFailed(st, staged, batch) ==
    [st EXCEPT !.errors = @ + Len(staged), !.records_inserted = 0, !.failed = TRUE]

RECURSIVE InsertBatches(_, _, _, _, _, _)
\* The loop over the batches (services.py:576-586); the fail_batch-th call
\* of bulk_create raises (0: none does).  i is the 0-based start of the batch.
InsertBatches(st, staged, i, batch_no, fail_batch, unique) ==
    IF i >= Len(staged) THEN st
    ELSE LET last == IF i + BATCH_SIZE < Len(staged) THEN i + BATCH_SIZE ELSE Len(staged)
             batch == SubSeq(staged, i + 1, last)
         IN IF batch_no = fail_batch
            THEN BulkFailed(st, staged, batch)
            ELSE InsertBatches(
                    [st EXCEPT !.table = bulk_create(@, batch, unique),
                               !.records_inserted = @ + Len(batch)],
                    staged, i + BATCH_SIZE, batch_no + 1, fail_batch, unique)

\* The stats insert_data_orm returns (services.py:604-615) after the rows
\* were staged (acc) and the batches inserted (st).
Returned(acc, st) ==
    [raised |-> FALSE, failed |-> st.failed, table |-> st.table,
     stats |-> [inserted |-> st.records_inserted,
                duplicates |-> acc.duplicates_skipped,
                errors |-> st.errors,
                total |-> st.records_inserted + acc.duplicates_skipped + st.errors]]

\* The staged rows acc are inserted in batches (services.py:568-594).
Batched(acc, table, fail_batch, unique) ==
    Only({Returned(acc, st) :
            st \in {InsertBatches([table |-> table, records_inserted |-> 0,
                                   errors |-> acc.errors, failed |-> FALSE],
                                  acc.records_to_create, 0, 1, fail_batch, unique)}})

\* insert_data_orm(process, data, column_structure) on the table: whether it
\* raised, the stats it returned, the table afterwards, and whether its bulk
\* insert failed.
insert_data_orm(table, process, data, column_structure, fail_batch, unique) ==
    IF data = <<>>
    THEN [raised |-> FALSE, failed |-> FALSE, table |-> table,
          stats |-> [inserted |-> 0, duplicates |-> 0, errors |-> 0, total |-> 0]]
    ELSE IF ~data[1].isdict
    \* first_record_keys = list(data[0].keys()) raises AttributeError
    THEN [raised |-> TRUE, failed |-> FALSE, table |-> table,
          stats |-> [inserted |-> 0, duplicates |-> 0, errors |-> 0, total |-> 0]]
    ELSE Only({Batched(acc, table, fail_batch, unique) :
                 acc \in {StageAll([records_to_create |-> <<>>,
                                    existing_hashes |-> existing_hashes(table, process),
                                    duplicates_skipped |-> 0,
                                    errors |-> 0],
                                   data, process, column_structure)}})

\* ---------------------------------------------------------------- sources
\* An error leaving a function: the exception class, the text of its message
\* as the code builds it (a string without the f prefix is not interpolated),
\* the attempt count the text names (0: none), and the place that raised it
\* first (cause: for the reader of the model, the program cannot see it).
Error(kind, text, attempts, cause) ==
    [kind |-> kind, text |-> text, attempts |-> attempts, cause |-> cause]

NoError == Error("", "", 0, "")

Failed(err, log) ==
    [ok |-> FALSE, err |-> err, data |-> <<>>, column_structures |-> {}, log |-> log]

Loaded(data, log) ==
    [ok |-> TRUE, err |-> NoError, data |-> data,
     column_structures |-> analyze_column_structure(data), log |-> log]

\* What one requests.get(...); raise_for_status(); json() can do.
Outcomes == {"ok", "ConnectionError", "SSLError", "ReadTimeout", "HTTPError"}

\* isinstance(e, (requests.exceptions.ConnectionError, ConnectionResetError)):
\* requests.exceptions.SSLError is a subclass of ConnectionError.
IsConnectionError(o) == o \in {"ConnectionError", "SSLError"}
IsSSLError(o) == o = "SSLError"
IsTimeout(o) == o = "ReadTimeout"
IsRequestException(o) == o \in {"ConnectionError", "SSLError", "ReadTimeout", "HTTPError"}

Get_(verify) == [ev |-> "GET", n |-> IF verify THEN 1 ELSE 0]
Sleep_(secs) == [ev |-> "sleep", n |-> secs]

\* The handler of a connection error (services.py:346-354), retry_count
\* already incremented.
ConnectionFailed(retry_count, log) ==
    IF retry_count < max_retries
    THEN [again |-> TRUE, log |-> Append(log, Sleep_(RETRY_PAUSE)), err |-> NoError]
    ELSE [again |-> FALSE, log |-> log,
          err |-> Error("Exception", "Falha ao conectar ao endpoint apos N tentativas",
                        max_retries, "connect")]

RECURSIVE RetryLoop(_, _, _, _)
\* The while loop (services.py:334-369): script[pos] is what the next GET
\* does.  Returns how the loop ended: got the body (err.kind = ""), or the
\* exception that leaves it.
RetryLoop(script, pos, retry_count, log) ==
    IF ~(retry_count < max_retries)
    THEN [log |-> log, err |-> Error("UnboundLocalError", "", 0, "loop")]
    ELSE LET o == script[pos]
             log1 == Append(log, Get_(TRUE))
         IN IF o = "ok" THEN [log |-> log1, err |-> NoError]
            ELSE IF IsConnectionError(o)
            THEN LET h == ConnectionFailed(retry_count + 1, log1)
                 IN IF h.again
                    THEN RetryLoop(script, pos + 1, retry_count + 1, h.log)
                    ELSE [log |-> h.log, err |-> h.err]
            ELSE IF IsSSLError(o)
            THEN LET o2 == script[pos + 1]
                     log2 == Append(log1, Get_(FALSE))
                 IN IF o2 = "ok" THEN [log |-> log2, err |-> NoError]
                    ELSE [log |-> log2, err |-> Error(o2, "", 0, "http")]
            ELSE [log |-> log1, err |-> Error(o, "", 0, "http")]

\* The except clauses that end fetch_data_from_endpoint (services.py:410-423).
WrapFetchError(e) ==
    IF IsTimeout(e.kind)
    THEN Error("Exception", "Timeout ao tentar acessar o endpoint.", 0, e.cause)
    ELSE IF IsRequestException(e.kind)
    THEN Error("Exception", "Erro ao buscar dados do endpoint: {str(e)}.", 0, e.cause)
    ELSE IF e.kind = "ValueError"
    THEN Error("Exception", "Erro ao processar os dados retornados: {str(e)}.", 0, e.cause)
    ELSE Error("Exception", "Erro inesperado ao buscar dados: {str(e)}", 0, e.cause)

\* A JSON body: a list of rows, an object (its fields in order, each a list
\* of rows or a plain value), or anything else.
ListBody(rows) == [json |-> "list", rows |-> rows, fields |-> <<>>]
ObjectBody(fields) == [json |-> "object", rows |-> <<>>, fields |-> fields]
ScalarBody == [json |-> "scalar", rows |-> <<>>, fields |-> <<>>]
ListField(k, rows) == [k |-> k, islist |-> TRUE, rows |-> rows, v |-> None]
ValueField(k, v) == [k |-> k, islist |-> FALSE, rows |-> <<>>, v |-> v]

\* A plausible slip: the last list-valued field is taken, not the first.
NormalizeShapeLastList(body) ==
    IF body.json = "object"
    THEN LET lists == {i \in DOMAIN body.fields : body.fields[i].islist}
         IN IF lists # {}
            THEN [ok |-> TRUE,
                  data |-> body.fields[CHOOSE i \in lists : \A j \in lists : i >= j].rows]
            ELSE [ok |-> TRUE,
                  data |-> <<DictRow([k \in {body.fields[i].k : i \in DOMAIN body.fields}
                                       |-> (body.fields[CHOOSE i \in DOMAIN body.fields :
                                                          body.fields[i].k = k]).v])>>]
    ELSE IF body.json = "list" THEN [ok |-> TRUE, data |-> body.rows]
    ELSE [ok |-> FALSE, data |-> <<>>]

\* The shape normalization (services.py:371-379): the rows, or not ok.
NormalizeShape(body) ==
    IF body.json = "object"
    THEN LET lists == {i \in DOMAIN body.fields : body.fields[i].islist}
         IN IF lists # {}
            THEN [ok |-> TRUE,
                  data |-> body.fields[CHOOSE i \in lists : \A j \in lists : i <= j].rows]
            ELSE [ok |-> TRUE,
                  data |-> <<DictRow([k \in {body.fields[i].k : i \in DOMAIN body.fields}
                                       |-> (body.fields[CHOOSE i \in DOMAIN body.fields :
                                                          body.fields[i].k = k]).v])>>]
    ELSE IF body.json = "list" THEN [ok |-> TRUE, data |-> body.rows]
    ELSE [ok |-> FALSE, data |-> <<>>]

\* The limits of fetch_data_from_endpoint (services.py:384-402): the cause of
\* the ValueError, or "".
EndpointLimits(data) ==
    IF Len(data) > MAX_ROWS THEN "limit_rows"
    ELSE IF data # <<>> /\ data[1].isdict /\ Cardinality(Keys(data[1])) > MAX_COLUMNS
    THEN "limit_columns"
    ELSE ""

\* fetch_data_from_endpoint(url): script is what the successive GETs do,
\* body the JSON the endpoint answers.
fetch_data_from_endpoint(script, body) ==
    LET loop == RetryLoop(script, 1, 0, <<>>)
        shape == NormalizeShape(body)
        limit == EndpointLimits(shape.data)
    IN IF loop.err.kind # "" THEN Failed(WrapFetchError(loop.err), loop.log)
       ELSE IF ~shape.ok
       THEN Failed(WrapFetchError(Error("ValueError", "", 0, "shape")), loop.log)
       ELSE IF shape.data = <<>>
       THEN Failed(WrapFetchError(Error("ValueError", "", 0, "empty")), loop.log)
       ELSE IF limit # ""
       THEN Failed(WrapFetchError(Error("ValueError", "", 0, limit)), loop.log)
       ELSE Loaded(shape.data, loop.log)

\* A file: its extension and the DataFrame pandas reads from it (the columns
\* and the rows, every row with every column).
File(ext, columns, rows) == [ext |-> ext, columns |-> columns, rows |-> rows]

\* dataframe_to_dict_list on one value: NaN becomes None, a timestamp its
\* ISO-8601 string.
ToJsonValue(v) ==
    IF v.ty = "nan" THEN None
    ELSE IF v.ty = "datetime" THEN StrV(v.v, v.dt)
    ELSE v

dataframe_to_dict_list(rows) ==
    [i \in DOMAIN rows |->
        DictRow([k \in Keys(rows[i]) |-> ToJsonValue(rows[i].f[k])])]

\* read_file_to_dataframe: the cause of its failure, or "".
ReadFailure(file, extensions) ==
    IF file.ext \notin extensions THEN "format"
    ELSE IF file.rows = <<>> \/ file.columns = {} THEN "empty"
    ELSE ""

\* The limits of process_file_data (services.py:222-235).
FileLimits(file) ==
    IF Len(file.rows) > MAX_ROWS THEN "limit_rows"
    ELSE IF Cardinality(file.columns) > MAX_COLUMNS THEN "limit_columns"
    ELSE ""

\* process_file_data(file) (services.py:205-247)
process_file_data(file) ==
    LET unread == ReadFailure(file, {"csv", "xlsx", "xls"})
        limit == FileLimits(file)
    IN IF unread # ""
       THEN Failed(Error("Exception", "Erro ao processar arquivo: {str(e)}", 0, unread), <<>>)
       ELSE IF limit # ""
       THEN Failed(Error("Exception", "Erro ao processar arquivo: {str(e)}", 0, limit), <<>>)
       ELSE Loaded(dataframe_to_dict_list(file.rows), <<>>)

\* process_file_data_from_path(file_path) (services.py:250-310): no limits.
process_file_data_from_path(file) ==
    LET unread == ReadFailure(file, {"csv", "xlsx", "xls"})
    IN IF unread # ""
       THEN Failed(Error("Exception", "Erro ao processar arquivo: {str(e)}", 0, unread), <<>>)
       ELSE Loaded(dataframe_to_dict_list(file.rows), <<>>)

\* ------------------------------------------------------------ table names
NoStats == [inserted |-> 0, duplicates |-> 0, errors |-> 0, total |-> 0]

\* A DataImportProcess row as objects.create(...) makes it.
Process(table_name, endpoint_url, status) ==
    [table_name |-> table_name, endpoint_url |-> endpoint_url, status |-> status,
     record_count |-> 0, column_structure |-> EmptyDict, error_message |-> ""]

IsAlnum(c) == c \in UpperChars \cup LowerChars \cup DigitChars

\* DataImportProcess.objects.filter(table_name=name).exists()
NameExists(procs, name) == \E i \in DOMAIN procs : procs[i].table_name = name

\* validate_table_name(value) against the committed processes: the cleaned
\* name, or a ValidationError.
validate_table_name(value, procs) ==
    LET cleaned == SelectSeq(value, LAMBDA c : IsAlnum(c) \/ c = "_")
        cleaned_lower == [i \in 1..Len(cleaned) |-> Lower(cleaned[i])]
    IN IF cleaned = <<>> THEN [ok |-> FALSE, name |-> <<>>]
       ELSE IF cleaned[1] \in DigitChars THEN [ok |-> FALSE, name |-> <<>>]
       ELSE IF NameExists(procs, cleaned_lower) THEN [ok |-> FALSE, name |-> <<>>]
       ELSE [ok |-> TRUE, name |-> cleaned_lower]

\* ------------------------------------------------------------ import_data
\* A source of an import: what the GETs on the URL do and answer, and the
\* uploaded file.
Source(script, body, file) == [script |-> script, body |-> body, file |-> file]

\* A plausible slip: no transaction around import_data.
NoTransaction(before, tx, raised) == tx

\* @transaction.atomic (services.py:643): the database after the call is the
\* one of the transaction, or the one before it when the call raised.
Atomic(before, tx, raised) == IF raised THEN before ELSE tx

\* A plausible slip: record_count is set to the total.
ImportSucceededTotal(proc, stats, column_structure) ==
    [proc EXCEPT !.status = "active", !.record_count = stats.total,
                 !.column_structure = column_structure]

\* The success path of import_data (services.py:698-701).
ImportSucceeded(proc, stats, column_structure) ==
    [proc EXCEPT !.status = "active", !.record_count = stats.inserted,
                 !.column_structure = column_structure]

\* The except path of import_data (services.py:712-715).
ImportFailed(proc, e) ==
    [proc EXCEPT !.status = "inactive", !.error_message = e.text]

\* A plausible slip: the source is handed to the loader before it is checked.
DispatchUnchecked(import_type, has_source) ==
    IF import_type = "endpoint" THEN "fetch_data_from_endpoint"
    ELSE IF import_type = "file" THEN "process_file_data"
    ELSE ""

\* The loader the dispatch of import_data calls (services.py:670-685), ""
\* when it raises its ValueError instead.
Dispatch(import_type, has_source) ==
    IF import_type = "endpoint"
    THEN IF ~has_source THEN "" ELSE "fetch_data_from_endpoint"
    ELSE IF import_type = "file"
    THEN IF ~has_source THEN "" ELSE "process_file_data"
    ELSE ""

\* The text of the ValueError of the dispatch (services.py:672-685).
DispatchError(import_type) ==
    IF import_type = "endpoint" THEN "URL do endpoint e obrigatoria"
    ELSE IF import_type = "file" THEN "Arquivo e obrigatorio"
    ELSE "Tipo de importacao invalido: {import_type}"

\* The result r of a loading, with the loader that was called for it.
Invoked(loader, r) ==
    [ok |-> r.ok, err |-> r.err, data |-> r.data,
     column_structures |-> r.column_structures, log |-> r.log, loader |-> loader]

\* The loading of import_data (services.py:670-685).
LoadForImport(import_type, has_source, source) ==
    IF Dispatch(import_type, has_source) = "fetch_data_from_endpoint"
    THEN Invoked("fetch_data_from_endpoint",
                 fetch_data_from_endpoint(source.script, source.body))
    ELSE IF Dispatch(import_type, has_source) = "process_file_data"
    THEN Invoked("process_file_data", process_file_data(source.file))
    ELSE Invoked("", Failed(Error("ValueError", DispatchError(import_type), 0,
                                  "validation"), <<>>))

\* The causes of the errors that leave the transaction of import_data
\* marked for rollback: an exception that passed through the atomic block of
\* bulk_create, a database error of process.save().  No query can be made
\* in a transaction so marked.
BrokenTransaction == {"bulk_create", "save"}

\* The exception the try block of import_data ends with (NoError when it
\* ends normally): the one of the loader, of the insertion, or of the
\* process.save() of the success path (services.py:701), which raises
\* TransactionManagementError after a bulk insert that raised inside
\* @transaction.atomic (services.py:643), although insert_data_orm caught
\* that exception.
ImportException(loaded, ins, save_fails) ==
    IF ~loaded.ok THEN loaded.err
    ELSE IF ins.raised THEN Error("AttributeError", "", 0, "insert")
    ELSE IF ins.failed THEN Error("TransactionManagementError", "", 0, "bulk_create")
    ELSE IF save_fails THEN Error("DatabaseError", "", 0, "save")
    ELSE NoError

\* The exception that leaves import_data after its try block ended with e:
\* the wrapped one of services.py:717, or, when the transaction is marked
\* for rollback, the TransactionManagementError of the process.save() of
\* the handler (services.py:715).
ImportRaises(e) ==
    IF e.cause \in BrokenTransaction
    THEN Error("TransactionManagementError", "", 0, e.cause)
    ELSE Error("Exception", "Erro na importacao: {str(e)}", 0, e.cause)

\* The try/except of import_data for the process pid just created: created
\* is the process table after objects.create, loaded and ins the results of
\* the loader and of insert_data_orm, e the exception of the try block.
ImportOutcome(db, pid, created, loaded, ins, cs, e) ==
    LET written == IF loaded.ok /\ ~ins.raised THEN ins.table ELSE db.stored
        tx == IF e.kind = ""
              THEN [processes |-> [created EXCEPT ![pid] = ImportSucceeded(@, ins.stats, cs)],
                    stored |-> written]
              ELSE [processes |-> [created EXCEPT ![pid] = ImportFailed(@, e)],
                    stored |-> written]
    IN [raised |-> e.kind # "",
        err |-> IF e.kind = "" THEN NoError ELSE ImportRaises(e),
        reached |-> e,
        db |-> Atomic(db, tx, e.kind # ""),
        pid |-> pid,
        stats |-> IF loaded.ok /\ ~ins.raised THEN ins.stats ELSE NoStats,
        cs |-> cs,
        loaded |-> loaded.ok,
        failed |-> loaded.ok /\ ~ins.raised /\ ins.failed,
        loader |-> loaded.loader,
        wrote |-> Len(written) - Len(db.stored)]

\* The body of import_data after objects.create: insert what was loaded.
ImportLoaded(db, pid, created, loaded, ins, env) ==
    ImportOutcome(db, pid, created, loaded, ins, env.pick,
                  ImportException(loaded, ins, env.save_fails))

\* The body of import_data after objects.create: load, then insert.
ImportCreated(db, pid, created, loaded, env, unique_hash) ==
    ImportLoaded(db, pid, created, loaded,
                 insert_data_orm(db.stored, pid, loaded.data, env.pick,
                                 env.fail_batch, unique_hash),
                 env)

\* The endpoint_url objects.create stores for an import.
ImportUrl(import_type, has_source) ==
    IF import_type = "endpoint" /\ has_source THEN "url"
    ELSE IF has_source THEN "file:name" ELSE "file:unknown"

\* import_data(table_name, ...) on the database db = [processes, stored].
\* env is what the environment does during the call: which of the possible
\* structures the inference returns (pick), which bulk_create raises
\* (fail_batch), whether process.save() of the success path raises
\* (save_fails).  Returns whether it raised and with what, the database
\* afterwards, and what happened inside the transaction.
import_data(db, table_name, import_type, has_source, source, env, unique_name, unique_hash) ==
    IF unique_name /\ NameExists(db.processes, table_name)
    \* objects.create raises outside the try block
    THEN [raised |-> TRUE, err |-> Error("IntegrityError", "", 0, "create"),
          reached |-> NoError, db |-> db, pid |-> 0, stats |-> NoStats, cs |-> EmptyDict,
          loaded |-> FALSE, failed |-> FALSE, loader |-> "", wrote |-> 0]
    ELSE ImportCreated(db, Len(db.processes) + 1,
                       Append(db.processes,
                              Process(table_name, ImportUrl(import_type, has_source),
                                      "active")),
                       LoadForImport(import_type, has_source, source),
                       env, unique_hash)

\* The structures the inference can return for the source of an import.
PossibleStructures(import_type, has_source, source) ==
    LET loaded == LoadForImport(import_type, has_source, source)
    IN IF loaded.ok THEN loaded.column_structures ELSE {EmptyDict}

\* ------------------------------------------------------------------ state
VARIABLES
    uniqueHash,   \* does the schema declare (process, row_hash) unique?
    uniqueName,   \* does the schema declare table_name unique?
    uniqueTask,   \* does the schema declare AsyncTask.task_id unique?
    tasks,        \* the AsyncTask table: id (the index) -> row
    processes,    \* the DataImportProcess table: id (the index) -> row
    stored,       \* the ImportedDataRecord table
    reqs,         \* Spec: the requests and jobs in flight
    call,         \* SpecInsert: the input and the last insert_data_orm call
    src,          \* SpecFetch: the source and the last read of it
    names,        \* SpecNames: a field name and what was made of it
    column        \* SpecDetect: the values of a column and the type detected

vars ==
    <<uniqueHash, uniqueName, uniqueTask, tasks, processes, stored, reqs, call,
      src, names, column>>

\* ------------------------------------------------- SpecInsert: the inputs
kA == <<"a">>
kB == <<"B">>
kb == <<"b">>

RowA0 == DictRow([k \in {kA} |-> IntV(0)])
RowA1 == DictRow([k \in {kA} |-> IntV(1)])
RowB0 == DictRow([k \in {kB} |-> IntV(0)])

Row2(x, y) == DictRow([k \in {kA, kB} |-> IF k = kA THEN IntV(x) ELSE IntV(y)])

InsertRows == {RowA0, RowA1, RowB0, Row2(1, 0), NotADict}

DataLists == UNION {[1..n -> InsertRows] : n \in 0..MaxLen}

\* The structures a process can hold: inferred from rows with field a, or
\* from rows with fields a and B.
InsertStructures ==
    analyze_column_structure(<<RowA0>>) \cup analyze_column_structure(<<RowA0, RowB0>>)

\* The most bulk_create calls one insert_data_orm of the model makes.
MaxBatches == (MaxLen + BATCH_SIZE - 1) \div BATCH_SIZE

NoCall == [data |-> <<>>, column_structure |-> EmptyDict, runs |-> 0,
           raised |-> FALSE, failed |-> FALSE, prev_failed |-> FALSE, len |-> 0,
           stats |-> NoStats, added |-> 0]

NoName == [raw |-> <<>>, out |-> <<>>, first |-> <<>>, applied |-> 0,
           analyzed |-> FALSE, keys |-> {}]

NoColumn == [values |-> <<>>, done |-> FALSE, type |-> ""]

NoSrc == [kind |-> "none", script |-> <<>>, body |-> ScalarBody,
          file |-> File("", {}, <<>>), done |-> FALSE, result |-> Failed(NoError, <<>>)]

InitInsert ==
    /\ column = NoColumn
    /\ names = NoName
    /\ uniqueHash \in BOOLEAN
    /\ uniqueName = TRUE
    /\ uniqueTask = TRUE
    /\ tasks = <<>>
    /\ processes = <<Process(<<"t">>, "file:x.csv", "active")>>
    /\ stored = <<>>
    /\ reqs = <<>>
    /\ src = NoSrc
    /\ \E d \in DataLists, cs \in InsertStructures :
          call = [NoCall EXCEPT !.data = d, !.column_structure = cs]

\* insert_data_orm(P, R, S) with the R and S of the behaviour: the first run,
\* or a run that follows a run on the same input with nothing in between.
InsertRun(fail_batch) ==
    LET r == insert_data_orm(stored, 1, call.data, call.column_structure,
                             fail_batch, uniqueHash)
    IN /\ stored' = r.table
       /\ call' = [call EXCEPT !.runs = IF @ >= 2 THEN 2 ELSE @ + 1,
                               !.raised = r.raised,
                               !.failed = r.failed,
                               !.prev_failed = call.runs >= 1 /\ call.failed,
                               !.len = Len(call.data),
                               !.stats = r.stats,
                               !.added = Len(r.table) - Len(stored)]
       /\ UNCHANGED <<column, names, uniqueHash, uniqueName, uniqueTask, tasks, processes, reqs, src>>

\* Another insert_data_orm call on the same process, with one other row and
\* the structure of the behaviour (an append): the runs on R start over.
InsertOther(row) ==
    LET r == insert_data_orm(stored, 1, <<row>>, call.column_structure,
                             0, uniqueHash)
    IN /\ stored' = r.table
       /\ call' = [call EXCEPT !.runs = 0,
                               !.raised = r.raised,
                               !.failed = r.failed,
                               !.prev_failed = FALSE,
                               !.len = 1,
                               !.stats = r.stats,
                               !.added = Len(r.table) - Len(stored)]
       /\ UNCHANGED <<column, names, uniqueHash, uniqueName, uniqueTask, tasks, processes, reqs, src>>

NextInsert ==
    \/ \E f \in 0..MaxBatches : InsertRun(f)
    \/ \E row \in InsertRows : InsertOther(row)

SpecInsert == InitInsert /\ [][NextInsert]_vars

\* --------------------------------------------------- SpecInsert: claims
\* The rows of data that insert_data_orm counts as errors before any insert:
\* not a dict, no mapped field, or a hash that cannot be computed.
ErrorRows(data, column_structure) ==
    CountTrue([i \in DOMAIN data |->
        \/ ~data[i].isdict
        \/ Keys(data[i]) \cap NameMapped(column_structure) = {}
        \/ \E k \in Keys(data[i]) \cap NameMapped(column_structure) :
              data[i].f[k].ty = "object"])

C2_TotalsAddUp ==
    (call.len > 0 /\ ~call.raised) =>
        /\ call.stats.total
             = call.stats.inserted + call.stats.duplicates + call.stats.errors
        /\ call.stats.total = call.len

C2_Witness ==
    /\ ~call.raised /\ call.failed
    /\ call.added > 0
    /\ call.stats.errors = call.len

\* C8: after any sequence of insert_data_orm calls on a process, one at a
\* time, no two stored records of that process have the same row_hash.
C8_RowHashUnique ==
    \A i, j \in DOMAIN stored :
        (i # j /\ stored[i].process = stored[j].process)
            => stored[i].row_hash # stored[j].row_hash

C8_Witness ==
    /\ Len(stored) >= 2
    /\ call.runs = 1 /\ call.added >= 1 /\ call.stats.duplicates >= 1
    /\ \E i, j \in DOMAIN call.data :
          i < j /\ call.data[i].isdict /\ call.data[i] = call.data[j]
          /\ Keys(call.data[i]) \cap NameMapped(call.column_structure) # {}

\* --------------------------------------------------- SpecFetch: the inputs
RowWide == DictRow([k \in {kA, kB, kb} |-> IntV(0)])
RowAB == DictRow([k \in {kA, kB} |-> IntV(1)])
RowNaN == DictRow([k \in {kA} |-> [ty |-> "nan", v |-> 0, dt |-> "no"]])
RowTime == DictRow([k \in {kA} |-> [ty |-> "datetime", v |-> 7, dt |-> "datetime"]])

\* n copies of a row
Repeat(row, n) == [i \in 1..n |-> row]

Scripts == [1..(max_retries + 1) -> Outcomes]

Bodies ==
    {ListBody(<<RowA0>>), ListBody(<<RowA0, RowWide>>), ListBody(<<RowWide, RowA0>>),
     ListBody(<<NotADict, RowWide>>), ListBody(Repeat(RowAB, MAX_ROWS)),
     ListBody(Repeat(RowA0, MAX_ROWS + 1)), ListBody(<<>>), ScalarBody,
     ObjectBody(<<ValueField(kA, IntV(1)), ListField(kB, <<RowA0, RowA1>>)>>),
     ObjectBody(<<ValueField(kA, IntV(1)), ValueField(kB, IntV(0))>>),
     ObjectBody(<<>>),
     ObjectBody(<<ListField(kA, <<>>), ListField(kB, <<RowA0>>)>>),
     ObjectBody(<<ListField(kA, <<RowA1>>), ValueField(kb, IntV(0)),
                  ListField(kB, <<RowA0, RowA0>>)>>)}

Files ==
    {File("csv", {kA}, <<RowA0, RowA1>>), File("xlsx", {kA}, <<RowNaN, RowTime>>),
     File("csv", {kA, kB, kb}, <<RowWide>>), File("xls", {kA, kB}, Repeat(RowAB, MAX_ROWS)),
     File("csv", {kA}, Repeat(RowA0, MAX_ROWS + 1)), File("csv", {kA}, <<>>),
     File("pdf", {kA}, <<RowA0>>)}

InitFetch ==
    /\ column = NoColumn
    /\ names = NoName
    /\ uniqueHash = TRUE
    /\ uniqueName = TRUE
    /\ uniqueTask = TRUE
    /\ tasks = <<>>
    /\ processes = <<>>
    /\ stored = <<>>
    /\ reqs = <<>>
    /\ call = NoCall
    /\ \/ \E sc \in Scripts, b \in Bodies :
            src = [NoSrc EXCEPT !.kind = "endpoint", !.script = sc, !.body = b]
       \/ \E k \in {"upload", "path"}, f \in Files :
            src = [NoSrc EXCEPT !.kind = k, !.file = f]

FetchEndpoint ==
    /\ src.kind = "endpoint" /\ ~src.done
    /\ src' = [src EXCEPT !.done = TRUE,
                          !.result = fetch_data_from_endpoint(src.script, src.body)]
    /\ UNCHANGED <<column, names, uniqueHash, uniqueName, uniqueTask, tasks, processes, stored, reqs, call>>

ReadUpload ==
    /\ src.kind = "upload" /\ ~src.done
    /\ src' = [src EXCEPT !.done = TRUE, !.result = process_file_data(src.file)]
    /\ UNCHANGED <<column, names, uniqueHash, uniqueName, uniqueTask, tasks, processes, stored, reqs, call>>

ReadPath ==
    /\ src.kind = "path" /\ ~src.done
    /\ src' = [src EXCEPT !.done = TRUE, !.result = process_file_data_from_path(src.file)]
    /\ UNCHANGED <<column, names, uniqueHash, uniqueName, uniqueTask, tasks, processes, stored, reqs, call>>

NextFetch == FetchEndpoint \/ ReadUpload \/ ReadPath

SpecFetch == InitFetch /\ [][NextFetch]_vars

\* ---------------------------------------------------- SpecFetch: claims
Gets(log) == CountTrue([i \in DOMAIN log |-> log[i].ev = "GET"])
Sleeps(log) == CountTrue([i \in DOMAIN log |-> log[i].ev = "sleep"])
RejectedByLimit(result) ==
    ~result.ok /\ result.err.cause \in {"limit_rows", "limit_columns"}

\* C7: the limit check of the endpoint is that of the file: rows that
\* together carry more than MAX_COLUMNS distinct fields, or more than
\* MAX_ROWS rows, are rejected, and rows within both limits are not.
C7_SameLimitsAsFile ==
    /\ (src.done /\ src.kind = "upload" /\ ReadFailure(src.file, {"csv", "xlsx", "xls"}) = "")
         => (RejectedByLimit(src.result)
               <=> (Len(src.file.rows) > MAX_ROWS
                      \/ Cardinality(src.file.columns) > MAX_COLUMNS))
    /\ (src.done /\ src.kind = "endpoint" /\ src.script[1] = "ok"
          /\ NormalizeShape(src.body).ok /\ NormalizeShape(src.body).data # <<>>)
         => (RejectedByLimit(src.result)
               <=> (Len(NormalizeShape(src.body).data) > MAX_ROWS
                      \/ Cardinality(AllKeys(NormalizeShape(src.body).data)) > MAX_COLUMNS))

\* C10: at most max_retries GETs on connection errors; when all fail, a
\* pause of RETRY_PAUSE seconds between consecutive GETs and none after the
\* last, and an error that names the number of attempts; no GET after one
\* that succeeds.
C10_RetryThenNamedFailure ==
    (src.done /\ src.kind = "endpoint") =>
        LET log == src.result.log
        IN /\ Gets(log) <= max_retries
           /\ (\A i \in 1..max_retries : IsConnectionError(src.script[i]))
                => /\ log = [n \in 1..(2 * max_retries - 1) |->
                               IF n % 2 = 1 THEN Get_(TRUE) ELSE Sleep_(RETRY_PAUSE)]
                   /\ ~src.result.ok
                   /\ src.result.err.cause = "connect"
                   /\ src.result.err.attempts = max_retries
           /\ \A i \in 1..max_retries :
                (src.script[i] = "ok" /\ \A j \in 1..(i - 1) : IsConnectionError(src.script[j]))
                   => /\ Gets(log) = i
                      /\ Sleeps(log) = i - 1
                      /\ log[Len(log)] = Get_(TRUE)

\* The GETs of a script end with a body received.
Answered(script) == RetryLoop(script, 1, 0, <<>>).err.kind = ""

\* A JSON object as one row.
ObjectAsRow(fields) ==
    DictRow([k \in {fields[i].k : i \in DOMAIN fields} |->
                (fields[CHOOSE i \in DOMAIN fields : fields[i].k = k]).v])

\* The rows the claim names for a body that is a list or an object.
ClaimedRows(body) ==
    IF body.json = "list" THEN body.rows
    ELSE IF \E i \in DOMAIN body.fields : body.fields[i].islist
    THEN body.fields[CHOOSE i \in DOMAIN body.fields :
                        /\ body.fields[i].islist
                        /\ \A j \in 1..(i - 1) : ~body.fields[j].islist].rows
    ELSE <<ObjectAsRow(body.fields)>>

\* C11: of the JSON body received, a list is the rows, an object gives its
\* first list-valued field or else itself as the only row; a body that is
\* neither, or rows that are empty, fail the fetch with the error of a
\* malformed answer, and no other body fails with the causes shape or empty.
C11_ShapeNormalization ==
    (src.done /\ src.kind = "endpoint" /\ Answered(src.script)) =>
        /\ src.result.ok => /\ src.body.json \in {"list", "object"}
                            /\ src.result.data = ClaimedRows(src.body)
                            /\ src.result.data # <<>>
        /\ (src.body.json \notin {"list", "object"} \/ ClaimedRows(src.body) = <<>>)
             => /\ ~src.result.ok
                /\ src.result.err.cause \in {"shape", "empty"}
                /\ src.result.err.text = "Erro ao processar os dados retornados: {str(e)}."
        /\ (src.body.json \in {"list", "object"} /\ ClaimedRows(src.body) # <<>>)
             => src.result.err.cause \notin {"shape", "empty"}

C11_Witness ==
    /\ src.done /\ src.kind = "endpoint" /\ src.result.ok
    /\ src.body.json = "object"
    /\ Cardinality({i \in DOMAIN src.body.fields : src.body.fields[i].islist}) = 2
    /\ src.result.data = <<RowA1>>

\* The part of C10 about the attempts and the pauses alone.
C10_RetrySchedule ==
    (src.done /\ src.kind = "endpoint") =>
        LET log == src.result.log
        IN /\ Gets(log) <= max_retries
           /\ (\A i \in 1..max_retries : IsConnectionError(src.script[i]))
                => /\ log = [n \in 1..(2 * max_retries - 1) |->
                               IF n % 2 = 1 THEN Get_(TRUE) ELSE Sleep_(RETRY_PAUSE)]
                   /\ ~src.result.ok
                   /\ src.result.err.cause = "connect"
           /\ \A i \in 1..max_retries :
                (src.script[i] = "ok" /\ \A j \in 1..(i - 1) : IsConnectionError(src.script[j]))
                   => /\ Gets(log) = i
                      /\ Sleeps(log) = i - 1
                      /\ log[Len(log)] = Get_(TRUE)

\* The log of the connection retries before the k-th GET: a verified GET
\* and a pause for each.
RetriedLog(k) ==
    [n \in 1..(2 * (k - 1)) |-> IF n % 2 = 1 THEN Get_(TRUE) ELSE Sleep_(RETRY_PAUSE)]

\* The k-th GET is the first that fails in the TLS handshake; the GETs
\* before it failed to connect.
FirstTlsFailure(script, k) ==
    /\ script[k] = "SSLError"
    /\ \A j \in 1..(k - 1) : script[j] = "ConnectionError"

\* C23: when a verified GET fails in the TLS handshake, the next thing
\* fetch_data_from_endpoint does is one GET with verification disabled,
\* with no pause before it, and that GET is the last: the failure is not
\* counted as a connection retry.
C23_TlsFallbackOnce ==
    (src.done /\ src.kind = "endpoint") =>
        \A k \in 1..max_retries :
            FirstTlsFailure(src.script, k) =>
                src.result.log = RetriedLog(k) \o <<Get_(TRUE), Get_(FALSE)>>

\* What the code does instead: a TLS failure is handled as a connection
\* error, so no GET is ever made with verification disabled.
C23_NeverUnverified ==
    (src.done /\ src.kind = "endpoint") =>
        \A n \in DOMAIN src.result.log : src.result.log[n] # Get_(FALSE)

\* ---------------------------------------------------- SpecSync: the inputs
AllOk == [i \in 1..(max_retries + 1) |-> "ok"]
AllDown == [i \in 1..(max_retries + 1) |-> "ConnectionError"]

\* rows with a repeat
SrcDup ==
    Source(AllOk, ListBody(<<RowA0, RowA0, RowA1>>),
           File("csv", {kA}, <<RowA0, RowA0, RowA1>>))
\* more rows than one batch holds
SrcThree ==
    Source(AllOk, ListBody(<<Row2(0, 0), Row2(1, 0), Row2(1, 1)>>),
           File("xlsx", {kA, kB}, <<Row2(0, 0), Row2(1, 0), Row2(1, 1)>>))
\* more rows than MAX_ROWS
SrcBig ==
    Source(AllOk, ListBody([i \in 1..(MAX_ROWS + 1) |-> Row2(i, 0)]),
           File("csv", {kA, kB}, [i \in 1..(MAX_ROWS + 1) |-> Row2(i, 0)]))
\* an endpoint that refuses the connection, a file of an unsupported format
SrcDown ==
    Source(AllDown, ListBody(<<RowA0>>), File("pdf", {kA}, <<RowA0>>))
\* an endpoint whose first row is not a record, a file without rows
SrcBadRow ==
    Source(AllOk, ListBody(<<NotADict, RowA0>>), File("csv", {kA}, <<>>))

Sources == {SrcDup, SrcThree, SrcBig, SrcDown, SrcBadRow}

RawNames == {<<"A", "-">>, <<"b">>, <<"1", "a">>, <<"-">>}

\* The arguments of an import: the import type, whether the source of that
\* type is given, and the source.
Args(import_type, has_source, source) ==
    [import_type |-> import_type, has_source |-> has_source, source |-> source]

ImportArgs ==
    {Args(t, TRUE, s) : t \in {"endpoint", "file"}, s \in Sources}
      \cup {Args("endpoint", FALSE, SrcDup), Args("file", FALSE, SrcDup),
            Args("other", TRUE, SrcDup)}

\* The AsyncTask row a job execution creates (tasks.py:45-47).
AsyncTask(task_id, status) ==
    [task_id |-> task_id, status |-> status, progress |-> 0, error |-> "",
     process |-> 0, result |-> NoStats, completed_at |-> FALSE]

\* No DataImportProcess object in memory yet.
NoProcess == Process(<<>>, "", "")

\* A request: a synchronous import (mode "sync"), a process_data_import_async
\* job ("async") or an append_data_async job ("append").
NewReq(mode, table_name, import_type, has_source, source) ==
    [mode |-> mode, pc |-> "new", table_name |-> table_name,
     import_type |-> import_type, has_source |-> has_source, source |-> source,
     called |-> FALSE, raised |-> FALSE, err |-> NoError, reached |-> NoError,
     pid |-> 0,
     stats |-> NoStats, cs |-> EmptyDict, wrote |-> 0, before |-> <<>>,
     prev |-> NoProcess, retries |-> 0, faults |-> 0, redo |-> FALSE,
     created |-> FALSE, obj |-> NoProcess, async_task |-> 0, countdown |-> 0,
     log |-> <<>>, bulk_failed |-> FALSE, loader |-> ""]

\* The rows import_data reads from the source of a request.
SourceRows(r) ==
    IF r.import_type = "endpoint" THEN NormalizeShape(r.source.body).data
    ELSE dataframe_to_dict_list(r.source.file.rows)

\* One request at a time, each on a process of its own: the unique
\* constraints of the schema are never put to the test.
InitSync ==
    /\ column = NoColumn
    /\ names = NoName
    /\ uniqueHash = TRUE
    /\ uniqueName = TRUE
    /\ uniqueTask = TRUE
    /\ tasks = <<>>
    /\ processes = <<>>
    /\ stored = <<>>
    /\ reqs = <<>>
    /\ call = NoCall
    /\ src = NoSrc

\* The view validates the table name of a request (validate_table_name).
Validated(raw, a) ==
    LET v == validate_table_name(raw, processes)
        r == NewReq("sync", v.name, a.import_type, a.has_source, a.source)
    IN IF v.ok THEN [r EXCEPT !.pc = "validated"]
       ELSE [r EXCEPT !.pc = "done", !.raised = TRUE,
                      !.err = Error("ValidationError", "", 0, "table_name")]

\* A synchronous request arrives when the one before it has been answered.
SyncRequest(raw, a) ==
    /\ \A i \in DOMAIN reqs : reqs[i].pc = "done"
    /\ reqs' = <<Validated(raw, a)>>
    /\ UNCHANGED <<column, names, uniqueHash, uniqueName, uniqueTask, tasks, processes, stored, call, src>>

\* The answer of import_data r recorded on request q, and the database it
\* leaves.
Answer(i, q, r) ==
    /\ processes' = r.db.processes
    /\ stored' = r.db.stored
    /\ reqs' = [reqs EXCEPT ![i] =
                  [q EXCEPT !.pc = "done", !.called = TRUE, !.raised = r.raised,
                            !.created = ~r.raised,
                            !.err = r.err, !.reached = r.reached,
                            !.pid = r.pid, !.stats = r.stats,
                            !.cs = r.cs, !.wrote = r.wrote, !.before = stored,
                            !.bulk_failed = r.failed, !.loader = r.loader]]

\* import_data for request i, as one transaction.
ImportData(i, pick, fail_batch, save_fails) ==
    /\ reqs[i].mode = "sync" /\ reqs[i].pc = "validated"
    /\ Answer(i, reqs[i],
              import_data([processes |-> processes, stored |-> stored],
                          reqs[i].table_name, reqs[i].import_type,
                          reqs[i].has_source, reqs[i].source,
                          [pick |-> pick, fail_batch |-> fail_batch,
                           save_fails |-> save_fails],
                          uniqueName, uniqueHash))
    /\ UNCHANGED <<column, names, uniqueHash, uniqueName, uniqueTask, tasks, call, src>>

NextSync ==
    \/ \E raw \in RawNames, a \in ImportArgs : SyncRequest(raw, a)
    \/ \E i \in DOMAIN reqs :
          \E pick \in PossibleStructures(reqs[i].import_type, reqs[i].has_source,
                                         reqs[i].source),
             f \in 0..MaxBatches, sf \in BOOLEAN :
                ImportData(i, pick, f, sf)

SpecSync == InitSync /\ [][NextSync]_vars

\* ----------------------------------------------------- SpecSync: claims
FailedImport(r) == r.mode = "sync" /\ r.pc = "done" /\ r.called /\ r.raised
ReturnedImport(r) == r.mode = "sync" /\ r.pc = "done" /\ r.called /\ ~r.raised

\* C3: after import_data failed, the ImportProcess it created is stored with
\* status inactive and the failure reason as error_message.
C3_FailedProcessVisible ==
    \A i \in DOMAIN reqs :
        FailedImport(reqs[i]) =>
            \E p \in DOMAIN processes :
                /\ processes[p].table_name = reqs[i].table_name
                /\ processes[p].status = "inactive"
                /\ processes[p].error_message # ""

\* C4: after import_data failed, the stored records are those stored before
\* the call.
C4_AllOrNothing ==
    \A i \in DOMAIN reqs : FailedImport(reqs[i]) => stored = reqs[i].before

C4_Witness ==
    \E i \in DOMAIN reqs : FailedImport(reqs[i]) /\ reqs[i].wrote >= 2

\* C5: when import_data returned, the stored process is active, its
\* record_count is the inserted count insert_data_orm returned and its
\* column_structure is one inferred from the rows of the source.
C5_SuccessRecorded ==
    \A i \in DOMAIN reqs :
        ReturnedImport(reqs[i]) =>
            /\ reqs[i].pid \in DOMAIN processes
            /\ processes[reqs[i].pid].table_name = reqs[i].table_name
            /\ processes[reqs[i].pid].status = "active"
            /\ processes[reqs[i].pid].record_count = reqs[i].stats.inserted
            /\ processes[reqs[i].pid].column_structure
                 \in analyze_column_structure(SourceRows(reqs[i]))

C5_Witness ==
    \E i \in DOMAIN reqs :
        /\ ReturnedImport(reqs[i])
        /\ reqs[i].stats.inserted = 2
        /\ reqs[i].stats.duplicates = 1
        /\ Len(stored) >= 2

\* The causes of the errors of the reader, the fetcher and the inferencer.
LoaderCauses ==
    {"format", "empty", "limit_rows", "limit_columns", "shape", "connect", "http"}

\* The class of the exception the loaders raise first for a cause: the
\* ValueError of services.py:170, 173, 220, 225, 232, 379, 382, 390 and 399,
\* the Exception of services.py:352 ("" for the exceptions of requests,
\* whose class the model does not keep).
RaisedKind(cause) ==
    IF cause \in {"format", "empty", "limit_rows", "limit_columns", "shape"}
    THEN "ValueError"
    ELSE IF cause = "connect" THEN "Exception"
    ELSE ""

\* The errors the loaders hand to import_data for the sources of the model.
LoadFailures ==
    {LoadForImport(a.import_type, a.has_source, a.source).err :
       a \in {b \in ImportArgs :
                ~LoadForImport(b.import_type, b.has_source, b.source).ok}}

\* The error e can be told from every error of another cause, by its class
\* or its text.
Distinguishable(e) ==
    \A other \in LoadFailures :
        other.cause # e.cause /\ other.cause \in LoaderCauses =>
            <<other.kind, other.text>> # <<e.kind, e.text>>

\* import_data caught an error of a loader.
LoaderFailed(r) ==
    r.mode = "sync" /\ r.pc = "done" /\ r.called /\ r.reached.cause \in LoaderCauses

\* C20: an error of the reader, the fetcher or the inferencer reaches
\* import_data with the class it was raised with and can be told there from
\* the errors of the other causes; import_data then raises one wrapped
\* error and does not return normally.
C20_ErrorsPropagateUnchanged ==
    \A i \in DOMAIN reqs :
        LoaderFailed(reqs[i]) =>
            /\ RaisedKind(reqs[i].reached.cause) # "" =>
                  reqs[i].reached.kind = RaisedKind(reqs[i].reached.cause)
            /\ Distinguishable(reqs[i].reached)
            /\ reqs[i].raised
            /\ reqs[i].err.kind = "Exception"

\* The part of C20 that holds: after any failure inside its try block that
\* leaves the transaction usable import_data raises one wrapped Exception
\* and does not return normally.
C20_OneWrappedError ==
    \A i \in DOMAIN reqs :
        /\ reqs[i].mode = "sync" /\ reqs[i].pc = "done" /\ reqs[i].reached.kind # ""
        /\ reqs[i].reached.cause \notin BrokenTransaction
        =>
            /\ reqs[i].raised
            /\ reqs[i].err.kind = "Exception"
            /\ reqs[i].err.text = "Erro na importacao: {str(e)}"

\* import_data was called for request r with an import type that is neither
\* endpoint nor file, or without the source of its type.
InvalidArgs(r) ==
    /\ r.mode = "sync" /\ r.pc = "done" /\ r.called
    /\ r.import_type \notin {"endpoint", "file"} \/ ~r.has_source

\* C22: import_data called with an import type outside {endpoint, file}, or
\* without the source of its type, fails: its try block ends with the
\* ValueError of the dispatch, neither the reader nor the fetcher was called,
\* and the stored records are those stored before, none for its process.
C22_InvalidArgsRejected ==
    \A i \in DOMAIN reqs :
        InvalidArgs(reqs[i]) =>
            /\ reqs[i].raised
            /\ reqs[i].reached.kind = "ValueError"
            /\ reqs[i].reached.cause = "validation"
            /\ reqs[i].loader = ""
            /\ reqs[i].wrote = 0
            /\ stored = reqs[i].before
            /\ \A k \in DOMAIN stored : stored[k].process # reqs[i].pid

\* A file import without a file was rejected on a database that holds the
\* records of an earlier import.
C22_Witness ==
    \E i \in DOMAIN reqs :
        /\ InvalidArgs(reqs[i])
        /\ reqs[i].import_type = "file" /\ ~reqs[i].has_source
        /\ reqs[i].raised
        /\ Len(stored) >= 2

\* ------------------------------------------- Spec: overlapping requests
\* Synchronous imports, process_data_import_async jobs and
\* append_data_async jobs overlap: each database statement of a job is a
\* step, import_data is one transaction.
MaxReqs == 2

\* The most failures the environment injects into one job: a missing user,
\* a bulk insert that raises, the time limit, the cache backend.
MaxFaults == 1

\* max_retries of the Celery tasks.
task_max_retries == 3

\* The processes with a table name.
Matches(procs, name) == {p \in DOMAIN procs : procs[p].table_name = name}

\* The lookup of get_or_create(table_name=...) (tasks.py:49): the process
\* with that name, none (pid 0), or MultipleObjectsReturned.
get(procs, table_name) ==
    IF Matches(procs, table_name) = {} THEN [raised |-> FALSE, pid |-> 0]
    ELSE IF Cardinality(Matches(procs, table_name)) = 1
    THEN [raised |-> FALSE, pid |-> CHOOSE p \in Matches(procs, table_name) : TRUE]
    ELSE [raised |-> TRUE, pid |-> 0]

\* The creation of get_or_create with its defaults (tasks.py:50-56): a new
\* process, or, when the unique constraint refuses it, the one that exists.
create_or_get(procs, table_name, endpoint_url, unique_name) ==
    IF unique_name /\ NameExists(procs, table_name)
    THEN [procs |-> procs, pid |-> get(procs, table_name).pid, created |-> FALSE]
    ELSE [procs |-> Append(procs, Process(table_name, endpoint_url, "active")),
          pid |-> Len(procs) + 1, created |-> TRUE]

\* The loading of the jobs (tasks.py:58-68 and 145-154).
LoadForJob(import_type, has_source, source) ==
    IF import_type = "endpoint" /\ has_source
    THEN fetch_data_from_endpoint(source.script, source.body)
    ELSE IF import_type = "file" /\ has_source
    THEN process_file_data_from_path(source.file)
    ELSE Failed(Error("ValueError", "Invalid import type or missing data source", 0,
                      "validation"), <<>>)

SpecArgs ==
    {Args("file", TRUE, SrcDup), Args("file", TRUE, SrcBig),
     Args("endpoint", TRUE, SrcBig), Args("endpoint", TRUE, SrcDown)}

\* A row with two field names that have the same safe name, and its source.
RowBb == DictRow([k \in {kB, kb} |-> IF k = kB THEN IntV(0) ELSE IntV(1)])

SrcCollide ==
    Source(AllOk, ListBody(<<RowBb>>), File("csv", {kB, kb}, <<RowBb>>))

JobArgs ==
    {Args("file", TRUE, SrcDup), Args("endpoint", TRUE, SrcDown),
     Args("file", TRUE, SrcCollide), Args("endpoint", TRUE, SrcThree)}

\* What the loading returns for each source the jobs are given; a job loads
\* its source again at every execution.
JobLoads ==
    [a \in SpecArgs \cup JobArgs |->
        LoadForJob(a.import_type, a.has_source, a.source)]

\* The loading of job q.
JobLoad(q) == JobLoads[Args(q.import_type, q.has_source, q.source)]

\* The structures the inference can return for the source of job q.
JobStructures(q) ==
    IF JobLoad(q).ok THEN JobLoad(q).column_structures ELSE {EmptyDict}

\* endpoint_url or "" (tasks.py:52).
JobUrl(q) == IF q.import_type = "endpoint" /\ q.has_source THEN "url" ELSE ""

SyncNames == {<<"A", "-">>}
JobNames == {<<"a">>}

Init ==
    /\ column = NoColumn
    /\ names = NoName
    /\ uniqueHash = TRUE
    /\ uniqueName \in BOOLEAN
    /\ uniqueTask \in BOOLEAN
    /\ tasks = <<>>
    /\ processes = <<>>
    /\ stored = <<>>
    /\ reqs = <<>>
    /\ call = NoCall
    /\ src = NoSrc

\* Request i becomes r.
Becomes(i, r) == reqs' = [reqs EXCEPT ![i] = r]

\* The environment may fail job q once more; q after it did.
CanFail(q) == q.faults < MaxFaults
Fault(q) == [q EXCEPT !.faults = @ + 1]

\* A synchronous import request arrives, or a process_data_import_async job
\* is queued.
Submit(mode, name, a) ==
    /\ Len(reqs) < MaxReqs
    /\ reqs' = Append(reqs,
                      [NewReq(mode, name, a.import_type, a.has_source, a.source)
                         EXCEPT !.pc = IF mode = "sync" THEN "new" ELSE "queued"])
    /\ UNCHANGED <<column, names, uniqueHash, uniqueName, uniqueTask, tasks, processes, stored, call, src>>

\* An append_data_async job is queued for the process p.
SubmitAppend(p, a) ==
    /\ Len(reqs) < MaxReqs
    /\ p \in DOMAIN processes
    /\ reqs' = Append(reqs,
                      [NewReq("append", processes[p].table_name, a.import_type,
                              a.has_source, a.source)
                         EXCEPT !.pc = "queued", !.pid = p])
    /\ UNCHANGED <<column, names, uniqueHash, uniqueName, uniqueTask, tasks, processes, stored, call, src>>

\* The view validates the table name of the synchronous request i.
ValidateName(i) ==
    /\ reqs[i].mode = "sync" /\ reqs[i].pc = "new"
    /\ Becomes(i, Validated(reqs[i].table_name, reqs[i]))
    /\ UNCHANGED <<column, names, uniqueHash, uniqueName, uniqueTask, tasks, processes, stored, call, src>>

\* AsyncTask.objects.filter(task_id=...).exists()
TaskExists(rows, task_id) == \E t \in DOMAIN rows : rows[t].task_id = task_id

\* The job q after the lookup g of its process (tasks.py:49).
Looked(q, g, procs) ==
    IF g.raised
    THEN [q EXCEPT !.pc = "except",
                   !.err = Error("MultipleObjectsReturned",
                                 "get() returned more than one DataImportProcess", 0,
                                 "get_or_create")]
    ELSE IF g.pid = 0 THEN [q EXCEPT !.pc = "creating"]
    ELSE [q EXCEPT !.pc = "created", !.pid = g.pid, !.obj = procs[g.pid]]

\* tasks.py:34-49: an execution of the job starts; it creates its AsyncTask
\* under the task id of the job (the same at every retry) and looks the
\* process up.  Job i has task id i.
StartJob(i, user_found) ==
    /\ reqs[i].mode = "async" /\ reqs[i].pc = "queued"
    /\ user_found \/ CanFail(reqs[i])
    /\ IF ~user_found
       \* User.objects.get(id=user_id) raises (tasks.py:43)
       THEN /\ Becomes(i, [Fault(reqs[i]) EXCEPT !.pc = "except", !.called = TRUE,
                                         !.before = stored,
                                         !.async_task = 0, !.log = <<>>,
                                         !.err = Error("DoesNotExist",
                                                       "User matching query does not exist.",
                                                       0, "user")])
            /\ UNCHANGED tasks
       ELSE IF uniqueTask /\ TaskExists(tasks, i)
       THEN /\ Becomes(i, [reqs[i] EXCEPT !.pc = "except", !.called = TRUE,
                                         !.before = stored,
                                         !.async_task = 0, !.log = <<>>,
                                         !.err = Error("IntegrityError",
                                                       "UNIQUE constraint failed: task_id",
                                                       0, "task")])
            /\ UNCHANGED tasks
       ELSE /\ tasks' = Append(tasks, AsyncTask(i, "started"))
            /\ Becomes(i, Looked([reqs[i] EXCEPT !.called = TRUE, !.log = <<>>,
                                                !.before = stored,
                                                !.async_task = Len(tasks) + 1],
                                 get(processes, reqs[i].table_name), processes))
    /\ UNCHANGED <<column, names, uniqueHash, uniqueName, uniqueTask, processes, stored, call, src>>

\* The process g of get_or_create becomes the process of job q.
Created(i, q, g) ==
    /\ processes' = g.procs
    /\ Becomes(i, [q EXCEPT !.pc = "created", !.pid = g.pid,
                            !.created = g.created, !.obj = g.procs[g.pid]])

\* tasks.py:50-56: the lookup found nothing, the job creates the process.
CreateProcess(i) ==
    /\ reqs[i].mode = "async" /\ reqs[i].pc = "creating"
    /\ Created(i, reqs[i],
               create_or_get(processes, reqs[i].table_name, JobUrl(reqs[i]),
                             uniqueName))
    /\ UNCHANGED <<column, names, uniqueHash, uniqueName, uniqueTask, tasks, stored, call, src>>

\* The in-memory process of tasks.py:62 and 70.
Structured(q, column_structure) ==
    [q.obj EXCEPT !.endpoint_url = IF q.import_type = "endpoint" THEN "url" ELSE @,
                  !.column_structure = column_structure]

\* The job q has loaded its source.
JobLoaded(i, q, loaded, pick) ==
    IF ~loaded.ok
    THEN /\ Becomes(i, [q EXCEPT !.pc = "except", !.err = loaded.err])
         /\ UNCHANGED processes
    ELSE /\ processes' = [processes EXCEPT ![q.pid] = Structured(q, pick)]
         /\ Becomes(i, [q EXCEPT !.pc = "loaded", !.cs = pick,
                                 !.obj = Structured(q, pick)])

\* tasks.py:58-71: the job loads its source and saves the structure.
LoadJob(i, pick) ==
    /\ reqs[i].mode = "async" /\ reqs[i].pc = "created"
    /\ JobLoaded(i, reqs[i],
                 JobLoad(reqs[i]),
                 pick)
    /\ UNCHANGED <<column, names, uniqueHash, uniqueName, uniqueTask, tasks, stored, call, src>>

\* The append q has loaded its source for the process proc it read.
AppendLoaded(i, q, proc, loaded) ==
    IF ~loaded.ok
    THEN Becomes(i, [q EXCEPT !.pc = "except", !.called = TRUE,
                              !.before = stored, !.err = loaded.err])
    ELSE Becomes(i, [q EXCEPT !.pc = "loaded", !.called = TRUE,
                              !.before = stored, !.obj = proc,
                              !.prev = proc, !.log = <<>>,
                              !.cs = proc.column_structure])

\* tasks.py:143-154: the append reads its process and loads its source.
StartAppend(i) ==
    /\ reqs[i].mode = "append" /\ reqs[i].pc = "queued"
    /\ AppendLoaded(i, reqs[i], processes[reqs[i].pid], JobLoad(reqs[i]))
    /\ UNCHANGED <<column, names, uniqueHash, uniqueName, uniqueTask, tasks, processes, stored, call, src>>

\* insert_data_orm of job q returned ins; the job of an import notes the
\* process and the progress on its AsyncTask (tasks.py:77-79).
Inserted(i, q, ins) ==
    IF ins.raised
    THEN /\ Becomes(i, [q EXCEPT !.pc = "except",
                                 !.err = Error("AttributeError",
                                               "object has no attribute 'keys'", 0,
                                               "insert")])
         /\ UNCHANGED <<stored, tasks>>
    ELSE /\ stored' = ins.table
         /\ tasks' = IF q.mode = "async"
                     THEN [tasks EXCEPT ![q.async_task].process = q.pid,
                                        ![q.async_task].progress = 50]
                     ELSE tasks
         /\ Becomes(i, [q EXCEPT !.pc = "inserted", !.stats = ins.stats,
                                 !.bulk_failed = ins.failed,
                                 !.wrote = @ + Len(ins.table) - Len(stored),
                                 !.log = Append(@, "insert")])

\* tasks.py:73-79 and 156-158: the job inserts the rows it loaded.
InsertJob(i, fail_batch) ==
    /\ reqs[i].mode \in {"async", "append"} /\ reqs[i].pc = "loaded"
    /\ fail_batch = 0 \/ CanFail(reqs[i])
    /\ \E ins \in {insert_data_orm(stored, reqs[i].pid, JobLoad(reqs[i]).data,
                                   reqs[i].cs, fail_batch, uniqueHash)} :
          Inserted(i, IF fail_batch = 0 THEN reqs[i] ELSE Fault(reqs[i]), ins)
    /\ UNCHANGED <<column, names, uniqueHash, uniqueName, uniqueTask, processes, call, src>>

\* CELERY_TASK_SOFT_TIME_LIMIT (settings.py:273): the time limit is reached
\* after the rows were inserted; SoftTimeLimitExceeded is raised in the task.
Interrupt(i) ==
    /\ reqs[i].mode \in {"async", "append"} /\ reqs[i].pc = "inserted"
    /\ CanFail(reqs[i])
    /\ Becomes(i, [Fault(reqs[i]) EXCEPT !.pc = "except",
                                  !.err = Error("SoftTimeLimitExceeded",
                                                "SoftTimeLimitExceeded()", 0,
                                                "timeout")])
    /\ UNCHANGED <<column, names, uniqueHash, uniqueName, uniqueTask, tasks, processes, stored, call, src>>

\* A plausible slip: the error of an earlier execution is not cleared.
CountedKeepsError(q) ==
    [q.obj EXCEPT !.record_count = q.stats.inserted]

\* The in-memory process of tasks.py:81-82.
Counted(q) ==
    [q.obj EXCEPT !.record_count = q.stats.inserted, !.error_message = ""]

\* tasks.py:87-91: the AsyncTask of a job that succeeded.
Succeeded(task, stats) ==
    [task EXCEPT !.status = "success", !.progress = 100, !.result = stats,
                 !.completed_at = TRUE]

\* tasks.py:81-101: the job saves the count, invalidates the caches (which
\* raises when the cache backend does, cache.py:66-82) and marks its
\* AsyncTask.
FinishJob(i, cache_fails) ==
    /\ reqs[i].mode = "async" /\ reqs[i].pc = "inserted"
    /\ ~cache_fails \/ CanFail(reqs[i])
    /\ processes' = [processes EXCEPT ![reqs[i].pid] = Counted(reqs[i])]
    /\ IF cache_fails
       THEN /\ Becomes(i, [Fault(reqs[i]) EXCEPT !.pc = "except", !.obj = Counted(reqs[i]),
                                         !.log = Append(@, "record_count"),
                                         !.err = Error("ConnectionError",
                                                       "cache backend unavailable", 0,
                                                       "cache")])
            /\ UNCHANGED tasks
       ELSE /\ tasks' = [tasks EXCEPT ![reqs[i].async_task] =
                                         Succeeded(@, reqs[i].stats)]
            /\ Becomes(i, [reqs[i] EXCEPT !.pc = "done", !.raised = FALSE,
                                         !.obj = Counted(reqs[i]),
                                         !.log = @ \o <<"record_count", "invalidate",
                                                        "success">>])
    /\ UNCHANGED <<column, names, uniqueHash, uniqueName, uniqueTask, stored, call, src>>

\* A plausible slip: the append sets the count as the import does.
IncrementedReplaces(q) == [q.obj EXCEPT !.record_count = q.stats.inserted]

\* The in-memory process of tasks.py:160.
Incremented(q) == [q.obj EXCEPT !.record_count = @ + q.stats.inserted]

\* tasks.py:160-165: the append saves the count and ends.
FinishAppend(i) ==
    /\ reqs[i].mode = "append" /\ reqs[i].pc = "inserted"
    /\ processes' = [processes EXCEPT ![reqs[i].pid] = Incremented(reqs[i])]
    /\ Becomes(i, [reqs[i] EXCEPT !.pc = "done", !.raised = FALSE,
                                  !.obj = Incremented(reqs[i]),
                                  !.log = Append(@, "record_count")])
    /\ UNCHANGED <<column, names, uniqueHash, uniqueName, uniqueTask, tasks, stored, call, src>>

\* A plausible slip: the delay does not grow with the retries.
CountdownFlat(retries) == 60

\* countdown=60 * (2**self.request.retries) (tasks.py:121 and 172)
Countdown(retries) == 60 * (2 ^ retries)

\* self.retry (tasks.py:121 and 172): the job is queued again after the
\* countdown, or ends with its exception once the retries are used up.
Retry(q) ==
    IF q.retries < task_max_retries
    THEN [q EXCEPT !.pc = "queued", !.retries = @ + 1,
                   !.countdown = Countdown(q.retries),
                   !.redo = @ \/ \E k \in DOMAIN q.log : q.log[k] = "insert"]
    ELSE [q EXCEPT !.pc = "done", !.raised = TRUE]

\* A plausible slip: the last retry is still marked retrying.
FailedStatusLate(retries) ==
    IF retries > task_max_retries THEN "failed" ELSE "retrying"

\* tasks.py:107-109: the status of the AsyncTask of a failed execution.
FailedStatus(retries) ==
    IF retries >= task_max_retries THEN "failed" ELSE "retrying"

\* tasks.py:106-111: the handler marks the AsyncTask, when the execution
\* has one.
TaskFailed(rows, q) ==
    IF q.async_task # 0
    THEN [rows EXCEPT ![q.async_task].status = FailedStatus(q.retries),
                      ![q.async_task].error = q.err.text]
    ELSE rows

\* tasks.py:113-118: the handler notes the error on the process with the
\* table name, when there is exactly one.
ProcessFailed(procs, q) ==
    IF ~get(procs, q.table_name).raised /\ get(procs, q.table_name).pid # 0
    THEN [procs EXCEPT ![get(procs, q.table_name).pid].error_message = q.err.text]
    ELSE procs

\* tasks.py:103-121: the handler of process_data_import_async.
JobFailed(i) ==
    /\ reqs[i].mode = "async" /\ reqs[i].pc = "except"
    /\ tasks' = TaskFailed(tasks, reqs[i])
    /\ processes' = ProcessFailed(processes, reqs[i])
    /\ Becomes(i, Retry(reqs[i]))
    /\ UNCHANGED <<column, names, uniqueHash, uniqueName, uniqueTask, stored, call, src>>

\* tasks.py:167-172: the handler of append_data_async.
AppendFailed(i) ==
    /\ reqs[i].mode = "append" /\ reqs[i].pc = "except"
    /\ Becomes(i, Retry(reqs[i]))
    /\ UNCHANGED <<column, names, uniqueHash, uniqueName, uniqueTask, tasks, processes, stored, call, src>>

Next ==
    \/ \E n \in SyncNames, a \in SpecArgs : Submit("sync", n, a)
    \/ \E n \in JobNames, a \in SpecArgs : Submit("async", n, a)
    \/ \E p \in DOMAIN processes, a \in SpecArgs : SubmitAppend(p, a)
    \/ \E i \in DOMAIN reqs : ValidateName(i)
    \/ \E i \in DOMAIN reqs :
          \E pick \in PossibleStructures(reqs[i].import_type, reqs[i].has_source,
                                         reqs[i].source),
             f \in 0..1, sf \in BOOLEAN :
                ImportData(i, pick, f, sf)
    \/ \E i \in DOMAIN reqs : StartJob(i, TRUE)
    \/ \E i \in DOMAIN reqs : CreateProcess(i)
    \/ \E i \in DOMAIN reqs :
          \E pick \in JobStructures(reqs[i]) :
             LoadJob(i, pick)
    \/ \E i \in DOMAIN reqs : StartAppend(i)
    \/ \E i \in DOMAIN reqs, f \in 0..1 : InsertJob(i, f)
    \/ \E i \in DOMAIN reqs : FinishJob(i, FALSE)
    \/ \E i \in DOMAIN reqs : FinishAppend(i)
    \/ \E i \in DOMAIN reqs : JobFailed(i)
    \/ \E i \in DOMAIN reqs : AppendFailed(i)

Spec == Init /\ [][Next]_vars

\* ------------------------------------------------ SpecJobs: one job at a time
\* Jobs run one after the other, each to its end with its retries, and the
\* environment fails them where it can: the user is gone, a bulk insert
\* raises, the time limit is reached after the insertion, the cache backend
\* is down.
InitJobs ==
    /\ column = NoColumn
    /\ names = NoName
    /\ uniqueHash = TRUE
    /\ uniqueName = TRUE
    /\ uniqueTask \in BOOLEAN
    /\ tasks = <<>>
    /\ processes = <<>>
    /\ stored = <<>>
    /\ reqs = <<>>
    /\ call = NoCall
    /\ src = NoSrc

\* No job is queued or running.
Idle == \A i \in DOMAIN reqs : reqs[i].pc = "done"

NextJobs ==
    \/ Idle /\ \E n \in JobNames, a \in JobArgs : Submit("async", n, a)
    \/ Idle /\ \E p \in DOMAIN processes, a \in JobArgs : SubmitAppend(p, a)
    \/ \E i \in DOMAIN reqs, u \in BOOLEAN : StartJob(i, u)
    \/ \E i \in DOMAIN reqs : CreateProcess(i)
    \/ \E i \in DOMAIN reqs :
          \E pick \in JobStructures(reqs[i]) :
             LoadJob(i, pick)
    \/ \E i \in DOMAIN reqs : StartAppend(i)
    \/ \E i \in DOMAIN reqs, f \in 0..1 : InsertJob(i, f)
    \/ \E i \in DOMAIN reqs : Interrupt(i)
    \/ \E i \in DOMAIN reqs, cf \in BOOLEAN : FinishJob(i, cf)
    \/ \E i \in DOMAIN reqs : FinishAppend(i)
    \/ \E i \in DOMAIN reqs : JobFailed(i)
    \/ \E i \in DOMAIN reqs : AppendFailed(i)

SpecJobs == InitJobs /\ [][NextJobs]_vars

\* The steps of the workers: everything but the submission of a job.
Worker ==
    \/ \E i \in DOMAIN reqs, u \in BOOLEAN : StartJob(i, u)
    \/ \E i \in DOMAIN reqs : CreateProcess(i)
    \/ \E i \in DOMAIN reqs :
          \E pick \in JobStructures(reqs[i]) :
             LoadJob(i, pick)
    \/ \E i \in DOMAIN reqs : StartAppend(i)
    \/ \E i \in DOMAIN reqs, f \in 0..1 : InsertJob(i, f)
    \/ \E i \in DOMAIN reqs : Interrupt(i)
    \/ \E i \in DOMAIN reqs, cf \in BOOLEAN : FinishJob(i, cf)
    \/ \E i \in DOMAIN reqs : FinishAppend(i)
    \/ \E i \in DOMAIN reqs : JobFailed(i)
    \/ \E i \in DOMAIN reqs : AppendFailed(i)

\* FairJobs: the workers keep running, so a job that is queued or running
\* eventually takes its next step (a retry is delivered after its countdown).
FairJobs == SpecJobs /\ WF_vars(Worker)

\* ------------------------------------------------------- Spec: claims
\* The source of request r holds more rows than MAX_ROWS.
OverLimit(r) ==
    /\ r.has_source
    /\ IF r.import_type = "endpoint"
       THEN r.source.script[1] = "ok" /\ Len(NormalizeShape(r.source.body).data) > MAX_ROWS
       ELSE Len(r.source.file.rows) > MAX_ROWS

\* C6: on every path a source with more than MAX_ROWS rows makes the import
\* fail and none of its rows is ever stored.
C6_RowLimitOnEveryPath ==
    \A i \in DOMAIN reqs :
        OverLimit(reqs[i]) =>
            /\ reqs[i].wrote = 0
            /\ reqs[i].pc = "done" => reqs[i].raised

\* The committed process of request r, made by r itself.
Owns(r) ==
    /\ r.created
    /\ r.pid \in DOMAIN processes
    /\ processes[r.pid].table_name = r.table_name

\* Request r was answered after another request had taken its table name.
LostRace(i) ==
    /\ reqs[i].mode \in {"sync", "async"}
    /\ reqs[i].pc = "done"
    /\ ~reqs[i].created
    /\ \E j \in DOMAIN reqs : j # i /\ Owns(reqs[j])
                              /\ reqs[j].table_name \in JobNames

\* C9: whatever the interleaving, at most one process has a given table
\* name, and a request that lost the race for it ended with a
\* ValidationError.
C9_UniqueTableName ==
    /\ \A p, r \in DOMAIN processes :
          processes[p].table_name = processes[r].table_name => p = r
    /\ \A i \in DOMAIN reqs :
          LostRace(i) => reqs[i].raised /\ reqs[i].err.kind = "ValidationError"

\* The bulk insert of request r raised in a batch (services.py:588-594).
BulkInsertFailed(r) == r.called /\ r.bulk_failed

\* C21: when a batch of the bulk insert raised inside insert_data_orm, the
\* import does not end as a successful one: the synchronous import_data
\* raises, and the asynchronous job enters its failure path instead of going
\* on to record its success.
C21_BulkFailureAborts ==
    \A i \in DOMAIN reqs :
        BulkInsertFailed(reqs[i]) =>
            /\ reqs[i].mode = "sync" => reqs[i].raised
            /\ reqs[i].mode \in {"async", "append"} =>
                  /\ reqs[i].pc # "inserted"
                  /\ reqs[i].pc = "done" => reqs[i].raised

\* The part of C21 that holds, and what the jobs do instead: the
\* synchronous import_data raises, because its transaction is marked for
\* rollback; a job goes on with inserted = 0 and every staged row counted as
\* an error.
C21_OnlySyncAborts ==
    \A i \in DOMAIN reqs :
        BulkInsertFailed(reqs[i]) =>
            /\ reqs[i].mode = "sync" =>
                  /\ reqs[i].raised
                  /\ reqs[i].err.kind = "TransactionManagementError"
            /\ reqs[i].mode \in {"async", "append"} /\ reqs[i].pc \in {"inserted", "done"} =>
                  /\ reqs[i].stats.inserted = 0
                  /\ reqs[i].stats.errors >= 1

\* --------------------------------------------------- SpecJobs: claims
\* The handler of process_data_import_async has just run for job i, the
\* last one submitted: the job waits for its retry or has ended with its
\* exception, and no later job has written since.
JustFailed(i) ==
    /\ i = Len(reqs)
    /\ reqs[i].mode = "async"
    /\ \/ reqs[i].pc = "queued" /\ reqs[i].retries > 0
       \/ reqs[i].pc = "done" /\ reqs[i].raised

\* The retries already made when the execution of q failed.
FailedAttempt(q) == IF q.pc = "queued" THEN q.retries - 1 ELSE q.retries

\* C12: when an execution of process_data_import_async has failed on attempt
\* r, its job record is retrying if r < 3 and failed otherwise, the error
\* text is on the job record and on the process with the table name, and
\* the retry, when one is left, is scheduled after 60 * 2^r seconds.
C12_FailureRecorded ==
    \A i \in DOMAIN reqs :
        JustFailed(i) =>
            /\ reqs[i].async_task \in DOMAIN tasks
            /\ tasks[reqs[i].async_task].status =
                  (IF FailedAttempt(reqs[i]) < 3 THEN "retrying" ELSE "failed")
            /\ tasks[reqs[i].async_task].error = reqs[i].err.text
            /\ \E p \in DOMAIN processes :
                  /\ processes[p].table_name = reqs[i].table_name
                  /\ processes[p].error_message = reqs[i].err.text
            /\ reqs[i].pc = "queued" =>
                  reqs[i].countdown = 60 * (2 ^ FailedAttempt(reqs[i]))

\* The part of C12 that holds: a failed execution that had created its job
\* record leaves the status, the error text on the record and on the
\* process, and the delay as stated.
C12_RecordedWhenStarted ==
    \A i \in DOMAIN reqs :
        JustFailed(i) /\ reqs[i].async_task # 0 =>
            /\ tasks[reqs[i].async_task].status =
                  (IF FailedAttempt(reqs[i]) < 3 THEN "retrying" ELSE "failed")
            /\ tasks[reqs[i].async_task].error = reqs[i].err.text
            /\ \E p \in DOMAIN processes :
                  /\ processes[p].table_name = reqs[i].table_name
                  /\ processes[p].error_message = reqs[i].err.text
            /\ reqs[i].pc = "queued" =>
                  reqs[i].countdown = 60 * (2 ^ FailedAttempt(reqs[i]))

\* The most AsyncTask rows the jobs can create: one for each execution.
MaxTasks == MaxReqs * (task_max_retries + 1)

\* The terminal statuses of an AsyncTask.
Terminal == {"success", "failed"}

\* C13: under fair execution of the workers, every AsyncTask row that was
\* created eventually has a terminal status, success or failed, and a row
\* with a terminal status never changes its status again.
C13_JobRecordsTerminate ==
    /\ \A t \in 1..MaxTasks :
          [](t \in DOMAIN tasks =>
                <>(t \in DOMAIN tasks /\ tasks[t].status \in Terminal))
    /\ [][\A t \in DOMAIN tasks :
            tasks[t].status \in Terminal => tasks'[t].status = tasks[t].status]_vars

\* The parts of C13 that hold: every job ends, a failed row belongs to an
\* execution that had used up the retries, and a terminal row keeps its
\* status.
C13_JobsEnd ==
    /\ \A i \in 1..MaxReqs : [](i \in DOMAIN reqs =>
                <>(i \in DOMAIN reqs /\ reqs[i].pc = "done"))
    /\ [][\A t \in DOMAIN tasks :
            /\ tasks[t].status \in Terminal => tasks'[t].status = tasks[t].status
            /\ tasks[t].status # "failed" /\ tasks'[t].status = "failed" =>
                  \E i \in DOMAIN reqs : /\ reqs[i].async_task = t
                                          /\ reqs[i].retries = task_max_retries]_vars

\* The last execution of job i, the last one submitted, has succeeded.
JustSucceeded(i) ==
    /\ i = Len(reqs)
    /\ reqs[i].mode = "async"
    /\ reqs[i].pc = "done"
    /\ ~reqs[i].raised

\* The steps a follow each other in this order in log.
InOrder(log, a) ==
    \E f \in [DOMAIN a -> DOMAIN log] :
        /\ \A k \in DOMAIN a : log[f[k]] = a[k]
        /\ \A k \in DOMAIN a : k > 1 => f[k - 1] < f[k]

\* C14: when an execution of process_data_import_async has succeeded, the
\* process has the inserted count of that execution as record_count and an
\* empty error_message, and the job record has status success, a completion
\* timestamp and the insertion stats as result; a job record has status
\* success only after the record_count write and the cache invalidation of
\* its execution, in this order.
C14_SuccessRecorded ==
    /\ \A i \in DOMAIN reqs :
          JustSucceeded(i) =>
              /\ processes[reqs[i].pid].table_name = reqs[i].table_name
              /\ processes[reqs[i].pid].record_count = reqs[i].stats.inserted
              /\ processes[reqs[i].pid].error_message = ""
              /\ tasks[reqs[i].async_task].status = "success"
              /\ tasks[reqs[i].async_task].completed_at
              /\ tasks[reqs[i].async_task].result = reqs[i].stats
    /\ \A i \in DOMAIN reqs :
          /\ reqs[i].mode = "async"
          /\ reqs[i].async_task \in DOMAIN tasks
          /\ tasks[reqs[i].async_task].status = "success"
          => InOrder(reqs[i].log, <<"insert", "record_count", "invalidate", "success">>)

\* A job succeeded at a retry, after an execution whose error was noted on
\* the process, and inserted rows.
C14_Witness ==
    \E i \in DOMAIN reqs :
        /\ JustSucceeded(i)
        /\ reqs[i].retries > 0
        /\ reqs[i].err.text # ""
        /\ reqs[i].stats.inserted >= 1
        /\ tasks[reqs[i].async_task].status = "success"

\* The execution of the append i, the last job submitted, has ended well.
JustAppended(i) ==
    /\ i = Len(reqs)
    /\ reqs[i].mode = "append"
    /\ reqs[i].pc = "done"
    /\ ~reqs[i].raised

\* The records the job q has stored: the last ones of the table.
NewRecords(q) ==
    {stored[k] : k \in (Len(stored) - q.wrote + 1)..Len(stored)}

\* C15: when append_data_async has ended well, the records it stored are
\* rows of its source normalized with the column_structure the process had,
\* the column_structure of the process is the one it had, and record_count
\* is the count it had plus the inserted count of the append.
C15_AppendReusesStructure ==
    \A i \in DOMAIN reqs :
        JustAppended(i) =>
            /\ processes[reqs[i].pid].column_structure = reqs[i].prev.column_structure
            /\ processes[reqs[i].pid].record_count =
                  reqs[i].prev.record_count + reqs[i].stats.inserted
            /\ \A r \in NewRecords(reqs[i]) :
                  /\ r.process = reqs[i].pid
                  /\ \E k \in DOMAIN JobLoad(reqs[i]).data :
                        /\ JobLoad(reqs[i]).data[k].isdict
                        /\ r.data = Normalize(JobLoad(reqs[i]).data[k],
                                               reqs[i].prev.column_structure)

\* An append stored a row for a process that had rows, with a structure
\* that is none the inference returns for the rows of the append.
C15_Witness ==
    \E i \in DOMAIN reqs :
        /\ JustAppended(i)
        /\ reqs[i].prev.record_count >= 1
        /\ reqs[i].stats.inserted >= 1
        /\ NewRecords(reqs[i]) # {}
        /\ reqs[i].prev.column_structure \notin JobLoad(reqs[i]).column_structures

\* Job i, the last one submitted, is executed again after an execution that
\* had stored its rows, and the insert step of this execution is over.
Reexecuted(i) ==
    /\ i = Len(reqs)
    /\ reqs[i].mode \in {"async", "append"}
    /\ reqs[i].redo
    /\ reqs[i].pc # "queued"
    /\ \E k \in DOMAIN reqs[i].log : reqs[i].log[k] = "insert"

\* The records of the process p.
RecordsOf(p) == {k \in DOMAIN stored : stored[k].process = p}

\* C16: when a job is executed again with the same source after an
\* execution that had stored its rows, the stored records are those stored
\* before the re-execution, and the job does not end with a record_count
\* above the number of records of the process.
C16_RetryIdempotent ==
    \A i \in DOMAIN reqs :
        Reexecuted(i) =>
            /\ stored = reqs[i].before
            /\ reqs[i].pc = "done" /\ ~reqs[i].raised =>
                  processes[reqs[i].pid].record_count
                     <= Cardinality(RecordsOf(reqs[i].pid))

\* The part of C16 that holds: the re-execution of an append, and of an
\* import whose source has no two field names with the same safe name.
C16_IdempotentWithoutCollision ==
    \A i \in DOMAIN reqs :
        /\ Reexecuted(i)
        /\ reqs[i].mode = "append" \/ Cardinality(JobStructures(reqs[i])) = 1
        =>
            /\ stored = reqs[i].before
            /\ reqs[i].pc = "done" /\ ~reqs[i].raised =>
                  processes[reqs[i].pid].record_count
                     <= Cardinality(RecordsOf(reqs[i].pid))

\* The execution of the import job q has created its AsyncTask and is at
\* position pc.
ExecutionAt(q, pc) ==
    q.mode = "async" /\ q.pc = pc /\ q.async_task \in DOMAIN tasks

\* C25: when an execution of process_data_import_async has inferred and
\* saved the schema and is about to insert the rows, its AsyncTask already
\* shows progress 50.
C25_CheckpointBeforeInsert ==
    \A i \in DOMAIN reqs :
        ExecutionAt(reqs[i], "loaded") => tasks[reqs[i].async_task].progress = 50

\* What the code does instead: the AsyncTask shows progress 0 until the rows
\* are inserted and 50 after that, and the progress of an AsyncTask never
\* decreases.
C25_CheckpointAfterInsert ==
    /\ [](\A i \in DOMAIN reqs :
            /\ ExecutionAt(reqs[i], "loaded") =>
                  tasks[reqs[i].async_task].progress = 0
            /\ ExecutionAt(reqs[i], "inserted") =>
                  tasks[reqs[i].async_task].progress = 50)
    /\ [][\A t \in DOMAIN tasks : tasks'[t].progress >= tasks[t].progress]_vars

\* The last execution of the import job q saved its record_count, failed in
\* invalidate_process_caches, and its handler has run.
CacheFailed(q) ==
    /\ q.mode = "async"
    /\ q.pc \in {"queued", "done"}
    /\ q.err.cause = "cache"
    /\ \E k \in DOMAIN q.log : q.log[k] = "record_count"
    /\ \A k \in DOMAIN q.log : q.log[k] # "success"

\* C26: when invalidate_process_caches failed after the rows were inserted
\* and record_count saved, the import is recorded as successful: the job
\* record has status success, the process has no error_message, and no
\* retry is scheduled.
C26_InvalidationBestEffort ==
    \A i \in DOMAIN reqs :
        CacheFailed(reqs[i]) =>
            /\ tasks[reqs[i].async_task].status = "success"
            /\ processes[reqs[i].pid].error_message = ""
            /\ reqs[i].pc = "done" /\ ~reqs[i].raised

\* What the code does instead: the failure of the invalidation is handled
\* as a failure of the import, with the rows stored and record_count saved.
C26_InvalidationFailsJob ==
    \A i \in DOMAIN reqs :
        CacheFailed(reqs[i]) /\ i = Len(reqs) =>
            /\ tasks[reqs[i].async_task].status \in {"retrying", "failed"}
            /\ processes[reqs[i].pid].error_message = reqs[i].err.text
            /\ processes[reqs[i].pid].record_count = reqs[i].stats.inserted
            /\ reqs[i].pc = "queued" \/ reqs[i].raised

\* Every job that was submitted has ended, and ended well.
AllCompleted ==
    /\ reqs # <<>>
    /\ \A i \in DOMAIN reqs : reqs[i].pc = "done" /\ ~reqs[i].raised

\* C28: after any sequence of asynchronous imports and appends that have
\* all ended well, retried executions included, the record_count of every
\* process is the number of records stored for it.
C28_CountMatchesRecords ==
    AllCompleted =>
        \A p \in DOMAIN processes :
            processes[p].record_count = Cardinality(RecordsOf(p))

\* The part of C28 that holds: after one import job alone that succeeded at
\* its first execution and whose bulk insert did not raise.
C28_FirstImportCounts ==
    /\ AllCompleted
    /\ Len(reqs) = 1
    /\ reqs[1].retries = 0 /\ ~reqs[1].bulk_failed
    => \A p \in DOMAIN processes :
          processes[p].record_count = Cardinality(RecordsOf(p))

\* The import job q has just inserted, at its first execution, the rows it
\* loaded, with the structure inferred from those rows, and no bulk insert
\* raised.
InsertedOwnRows(q) ==
    /\ q.mode = "async"
    /\ q.pc = "inserted"
    /\ q.retries = 0
    /\ ~q.bulk_failed
    /\ q.cs \in analyze_column_structure(JobLoad(q).data)

\* The record r holds every field of the row item under its sanitized name.
HoldsEveryField(r, item) ==
    \A k \in Keys(item) :
        /\ sanitize_column_name(k) \in DOMAIN r.data
        /\ r.data[sanitize_column_name(k)] = item.f[k]

\* Two field names of the rows data have the same sanitized name.
Collides(data) ==
    \E k1, k2 \in AllKeys(data) :
        k1 # k2 /\ sanitize_column_name(k1) = sanitize_column_name(k2)

\* C30: when insert_data_orm was given rows and the column_structure that
\* analyze_column_structure derived from them, every record-shaped row has a
\* stored record of the process that holds every field of the row under its
\* sanitized name, also when two field names have the same sanitized name.
C30_NoFieldLost ==
    \A i \in DOMAIN reqs :
        InsertedOwnRows(reqs[i]) =>
            \A k \in DOMAIN JobLoad(reqs[i]).data :
                JobLoad(reqs[i]).data[k].isdict =>
                    \E n \in DOMAIN stored :
                        /\ stored[n].process = reqs[i].pid
                        /\ HoldsEveryField(stored[n], JobLoad(reqs[i]).data[k])

\* The part of C30 that holds: the rows no two field names of which have
\* the same sanitized name.
C30_NoFieldLostWithoutCollision ==
    \A i \in DOMAIN reqs :
        InsertedOwnRows(reqs[i]) /\ ~Collides(JobLoad(reqs[i]).data) =>
            \A k \in DOMAIN JobLoad(reqs[i]).data :
                JobLoad(reqs[i]).data[k].isdict =>
                    \E n \in DOMAIN stored :
                        /\ stored[n].process = reqs[i].pid
                        /\ HoldsEveryField(stored[n], JobLoad(reqs[i]).data[k])

\* ----------------------------------------------- SpecInsert: claim C17
\* insert_data_orm has just run on the rows of the behaviour and returned,
\* and no bulk insert raised.
RanOnData ==
    call.runs >= 1 /\ ~call.raised /\ ~call.failed

\* The fields of the row item that have a mapping in column_structure.
MappedKeys(item, column_structure) ==
    Keys(item) \cap NameMapped(column_structure)

\* The safe name of the mapped field k.
SafeOf(k, column_structure) ==
    CHOOSE s \in DOMAIN column_structure : column_structure[s].original_name = k

\* The record r holds exactly the mapped fields of item, each under its
\* safe name.
HoldsMapped(r, item, column_structure) ==
    /\ DOMAIN r.data = {SafeOf(k, column_structure) :
                          k \in MappedKeys(item, column_structure)}
    /\ \A k \in MappedKeys(item, column_structure) :
          r.data[SafeOf(k, column_structure)] = item.f[k]

\* C17: after insert_data_orm, every row without a mapped field (and every
\* row that is no record) is counted in errors and no record without fields
\* is stored, while for every record-shaped row with a mapped field the
\* table holds a record of the process with exactly its mapped fields under
\* their safe names.
C17_UnmappedRowsAreErrors ==
    RanOnData =>
        /\ call.stats.errors = ErrorRows(call.data, call.column_structure)
        /\ \A k \in DOMAIN stored : DOMAIN stored[k].data # {}
        /\ \A i \in DOMAIN call.data :
              /\ call.data[i].isdict
              /\ MappedKeys(call.data[i], call.column_structure) # {}
              => \E k \in DOMAIN stored :
                    /\ stored[k].process = 1
                    /\ HoldsMapped(stored[k], call.data[i], call.column_structure)

\* A run on a row without a mapped field and a row with a mapped and an
\* unmapped field: the first is an error, the second is stored.
C17_Witness ==
    /\ RanOnData
    /\ call.runs = 1
    /\ \E i, j \in DOMAIN call.data :
          /\ call.data[i].isdict /\ call.data[j].isdict
          /\ MappedKeys(call.data[i], call.column_structure) = {}
          /\ MappedKeys(call.data[j], call.column_structure) # {}
          /\ Keys(call.data[j]) \ NameMapped(call.column_structure) # {}
    /\ call.stats.errors >= 1
    /\ call.stats.inserted >= 1

\* The rows of data that are not record-shaped.
NonRecords(data) == {i \in DOMAIN data : ~data[i].isdict}

\* C24: insert_data_orm on rows of which some, at any position, are not
\* record-shaped returns its stats, counts each such row as one error and
\* processes the other rows: every row is counted, and the errors are the
\* rows that are no records, have no mapped field or cannot be hashed.
C24_NonRecordRowsCounted ==
    (call.runs >= 1 /\ NonRecords(call.data) # {}) =>
        /\ ~call.raised
        /\ call.stats.total = Len(call.data)
        /\ call.stats.errors >= Cardinality(NonRecords(call.data))
        /\ ~call.failed =>
              call.stats.errors = ErrorRows(call.data, call.column_structure)

\* The part of C24 that holds: the rows that are not record-shaped at any
\* position but the first.
C24_CountedAfterFirstRow ==
    (call.runs >= 1 /\ NonRecords(call.data) # {} /\ 1 \notin NonRecords(call.data)) =>
        /\ ~call.raised
        /\ call.stats.total = Len(call.data)
        /\ call.stats.errors >= Cardinality(NonRecords(call.data))
        /\ ~call.failed =>
              call.stats.errors = ErrorRows(call.data, call.column_structure)

\* C29: the inserted count that insert_data_orm returns is the number of
\* records the call added to storage, whether all batches succeeded or a
\* batch raised after earlier batches were written.
C29_InsertedIsAdded ==
    (call.runs >= 1 /\ ~call.raised) => call.stats.inserted = call.added

\* The part of C29 that holds: a call, with no other writer at work, none of
\* whose batches raised.
C29_AddedWhenNoBatchFailed ==
    (call.runs >= 1 /\ ~call.raised /\ ~call.failed) =>
        call.stats.inserted = call.added

\* ------------------------------------------- SpecNames: one field name
\* sanitize_column_name is applied to a raw field name and again to its
\* result, and analyze_column_structure to a row with that field.
MaxName == 3

\* The characters of the raw names: a capital, a small letter, a digit, a
\* blank, a punctuation mark and the underscore.
NameChars == {"A", "a", "1", " ", "-", "_"}

RawColumnNames == UNION {[1..n -> NameChars] : n \in 0..MaxName}

InitNames ==
    /\ column = NoColumn
    /\ uniqueHash = TRUE
    /\ uniqueName = TRUE
    /\ uniqueTask = TRUE
    /\ tasks = <<>>
    /\ processes = <<>>
    /\ stored = <<>>
    /\ reqs = <<>>
    /\ call = NoCall
    /\ src = NoSrc
    /\ \E raw \in RawColumnNames : names = [NoName EXCEPT !.raw = raw]

\* sanitize_column_name(raw), then sanitize_column_name of the result.
Sanitize ==
    /\ names.applied < 2
    /\ names' = [names EXCEPT
                   !.applied = @ + 1,
                   !.out = sanitize_column_name(IF names.applied = 0 THEN names.raw
                                                ELSE names.out),
                   !.first = IF names.applied = 0
                             THEN sanitize_column_name(names.raw) ELSE @]
    /\ UNCHANGED <<column, uniqueHash, uniqueName, uniqueTask, tasks, processes,
                   stored, reqs, call, src>>

\* analyze_column_structure([{raw: 0}]): the keys of the structure.
Analyze ==
    /\ ~names.analyzed
    /\ names' = [names EXCEPT
                   !.analyzed = TRUE,
                   !.keys = UNION {DOMAIN cs :
                                     cs \in analyze_column_structure(
                                        <<DictRow([k \in {names.raw} |-> IntV(0)])>>)}]
    /\ UNCHANGED <<column, uniqueHash, uniqueName, uniqueTask, tasks, processes,
                   stored, reqs, call, src>>

NextNames == Sanitize \/ Analyze

SpecNames == InitNames /\ [][NextNames]_vars

\* --------------------------------------------------- SpecNames: claims
\* C18: sanitize_column_name applied to its own result returns it unchanged,
\* whatever the raw name.
C18_SanitizeIdempotent ==
    names.applied = 2 => names.out = names.first

\* The part of C18 that holds: the names whose cleaned form does not start
\* with a digit, the empty one included.
C18_IdempotentWithoutDigit ==
    /\ names.applied = 2
    /\ Cleaned(names.raw) = <<>> \/ Cleaned(names.raw)[1] \notin DigitChars
    => names.out = names.first

\* A valid identifier: not empty, letters, digits and underscores, no digit
\* first.
ValidIdentifier(s) ==
    /\ s # <<>>
    /\ \A i \in DOMAIN s : IsWordChar(s[i])
    /\ s[1] \notin DigitChars

\* The marker "col_".
COL_MARKER == <<"c", "o", "l", "_">>

\* C19: every key of a column_structure that analyze_column_structure
\* returns is a valid identifier, and the key of a raw name whose cleaned
\* form starts with a digit is that cleaned form after the marker.
C19_KeysAreIdentifiers ==
    names.analyzed =>
        \A key \in names.keys :
            /\ ValidIdentifier(key)
            /\ Cleaned(names.raw) # <<>> /\ Cleaned(names.raw)[1] \in DigitChars
                  => key = COL_MARKER \o Cleaned(names.raw)

\* The part of C19 that holds: the key of a raw name whose cleaned form
\* does not start with a digit is a valid identifier.
C19_IdentifierWithoutDigit ==
    /\ names.analyzed
    /\ Cleaned(names.raw) = <<>> \/ Cleaned(names.raw)[1] \notin DigitChars
    => /\ names.keys # {}
       /\ \A key \in names.keys : ValidIdentifier(key)

\* ------------------------------------------- SpecDetect: one column
\* detect_column_type is applied to the values of one column: strings that
\* parse as a date, as a date with a time, or not at all, in the first
\* DATE_SAMPLE places, and other values after them.
MaxTail == 1

DateStr == StrV(0, "date")
TimeStr == StrV(0, "datetime")
PlainStr == StrV(0, "no")
NativeDate == [ty |-> "datetime", v |-> 0, dt |-> "date"]

\* The values that follow the strings.
TailValues == {IntV(0), PlainStr, DateStr, None, NativeDate}

Tails == UNION {[1..n -> TailValues] : n \in 0..MaxTail}

\* The columns: after z None values, a strings with a date, b with a date
\* and a time, c with neither, then a tail.
InitDetect ==
    /\ names = NoName
    /\ uniqueHash = TRUE
    /\ uniqueName = TRUE
    /\ uniqueTask = TRUE
    /\ tasks = <<>>
    /\ processes = <<>>
    /\ stored = <<>>
    /\ reqs = <<>>
    /\ call = NoCall
    /\ src = NoSrc
    /\ \E a, b, c \in 0..DATE_SAMPLE, z \in 0..1, tail \in Tails :
          /\ a + b + c <= DATE_SAMPLE
          /\ column = [NoColumn EXCEPT
                         !.values = [i \in 1..z |-> None] \o [i \in 1..a |-> DateStr]
                                      \o [i \in 1..b |-> TimeStr]
                                      \o [i \in 1..c |-> PlainStr] \o tail]

\* detect_column_type(values) returns one of the tags it can return.
Detect ==
    /\ ~column.done
    /\ \E t \in detect_column_type(column.values) :
          column' = [column EXCEPT !.done = TRUE, !.type = t]
    /\ UNCHANGED <<names, uniqueHash, uniqueName, uniqueTask, tasks, processes,
                   stored, reqs, call, src>>

NextDetect == Detect

SpecDetect == InitDetect /\ [][NextDetect]_vars

\* --------------------------------------------------- SpecDetect: claims
\* The first n values of a sequence.
FirstOf(s, n) == SubSeq(s, 1, IF Len(s) < n THEN Len(s) ELSE n)

\* The values that are not None.
NonNull(values) == SelectSeq(values, LAMBDA v : v.ty # "NoneType")

AllStrings(s) == \A i \in DOMAIN s : s[i].ty = "str"
NoNativeDate(s) == \A i \in DOMAIN s : s[i].ty # "datetime"

\* The tag the date rule gives for the strings s when more than 80% of
\* them parse, "" when not.
DateRule(s) ==
    LET with_time == Cardinality({i \in DOMAIN s : s[i].dt = "datetime"})
        without == Cardinality({i \in DOMAIN s : s[i].dt = "date"})
    IN IF (with_time + without) * 10 > Len(s) * 8
       THEN IF with_time > without THEN "datetime" ELSE "date"
       ELSE ""

\* The tags of the most frequent native types of s.
MostFrequent(s) ==
    LET Count(t) == Cardinality({i \in DOMAIN s : s[i].ty = t})
    IN {TYPE_MAPPING(s[i].ty) : i \in {j \in DOMAIN s :
                                          \A k \in DOMAIN s : Count(s[k].ty) <= Count(s[j].ty)}}

\* C27: when no sampled value is a native date and the first 20 non-null
\* values are all strings, whatever the sampled values after them,
\* detect_column_type returns datetime or date by the date rule on those 20
\* if more than 80% of them parse, and else the tag of a most frequent
\* native type of the sample.
C27_DateRuleOnFirst20 ==
    /\ column.done
    /\ NonNull(column.values) # <<>>
    /\ NoNativeDate(FirstOf(NonNull(column.values), SAMPLE_SIZE))
    /\ AllStrings(FirstOf(NonNull(column.values), DATE_SAMPLE))
    => IF DateRule(FirstOf(NonNull(column.values), DATE_SAMPLE)) # ""
       THEN column.type = DateRule(FirstOf(NonNull(column.values), DATE_SAMPLE))
       ELSE column.type \in MostFrequent(FirstOf(NonNull(column.values), SAMPLE_SIZE))

\* The part of C27 that holds: the same when all the sampled values, the
\* first 100 that are not None, are strings; one string with a date among
\* 19 without gives TEXT.
C27_DateRuleOnStrings ==
    /\ (/\ column.done
        /\ NonNull(column.values) # <<>>
        /\ AllStrings(FirstOf(NonNull(column.values), SAMPLE_SIZE))
        => IF DateRule(FirstOf(NonNull(column.values), DATE_SAMPLE)) # ""
           THEN column.type = DateRule(FirstOf(NonNull(column.values), DATE_SAMPLE))
           ELSE column.type = "TEXT")
    /\ (/\ column.done
        /\ NonNull(column.values) = [i \in 1..DATE_SAMPLE |->
                                       IF i = 1 THEN DateStr ELSE PlainStr]
        => column.type = "TEXT")

====
